---------------------------- MODULE Spec2Model ----------------------------
(***************************************************************************)
(* ClauseGuard: the policy analysis pipeline of src/src/utils/browser.js   *)
(* (module utils/llm, lines 259-503): settings validation, chunking of     *)
(* long documents, one HTTP call per chunk, normalisation of each reply    *)
(* (parseAnalysisResponse / extractJSON) and the merge of the chunk        *)
(* results (mergeChunkResults); the background service worker of           *)
(* src/src/background/background.js (analysisCache, badge, message router) *)
(* and the popup's startAnalysis of src/unnamed/part_001.                  *)
(*                                                                         *)
(* JavaScript values are tagged records (field t is the tag).  A data      *)
(* string is the sequence of its characters; the text of an LLM reply is   *)
(* the sequence of its lexemes (field x), see extractJSON.  An operation   *)
(* that can throw yields a completion record: Return(v) or Throw(e).       *)
(***************************************************************************)
EXTENDS Integers, Sequences, FiniteSets, TLC

VARIABLES
  \* --- one call of parseAnalysisResponse (SpecNormalize)
  nPc,          \* "idle" | "called" | "returned" | "renormalized" | "threw"
  nResponse,    \* the argument
  nResult,      \* the completion of the call
  nAfter,       \* the argument object as the call left it
  \* --- one run of the chunking loop of analyzeInChunks (SpecChunk)
  cPc,          \* "idle" | "loop" | "done"
  cText,        \* policyText (its length; a slice names its span)
  cI,           \* the loop variable i
  cChunks,      \* the array chunks
  \* --- one call of mergeChunkResults (SpecMerge)
  mPc,          \* "idle" | "called" | "returned" | "threw"
  mReplies,     \* the chunk replies the results come from
  mResults,     \* the argument: the array of chunk results
  mMerged,      \* the completion of the call
  \* --- one call of analyzePolicyWithLLM (Spec)
  pc,           \* "call" | "rejected" | "single" | "chunked" | "merged"
  store,        \* what storage.get('settings') resolves to
  policyText,   \* the document
  calls,        \* the HTTP calls issued so far, in order
  inflight,     \* indexes of calls whose fetch has not settled
  fetched,      \* call index -> what its fetch settled with
  chunkResults, \* call index -> completion of the chunk's async callback
  arrived,      \* the call indexes in the order their fetches settled
  merges,       \* the arguments mergeChunkResults was called with
  outcome,      \* the promise returned by analyzePolicyWithLLM
  \* --- one call of callLLM (SpecCall)
  kPc,          \* "idle" | "fetch" | "body" | "returned" | "threw"
  kSettled,     \* what the fetch, then response.json(), settled with
  kResult,      \* the completion of the call
  \* --- the background service worker (SpecBackground)
  analysisCache, \* the Map: key (a tab id, or undefined) -> entry
  openTabs,     \* the tabs that exist
  requests,     \* the ANALYZE_POLICY messages received, each with its handler's position
  badge,        \* the badge texts set: undefined (the default badge) or tab id -> text
  got,          \* the last GET_ANALYSIS answered: the key looked up and the answer
  \* --- one run of the popup's startAnalysis (SpecPopup)
  uPc,          \* "idle" | "start" | "settings" | "extract" | "analyze" | "done"
  uStore,       \* what chrome.storage.local.get('settings') resolves to
  currentTabId, \* the active tab found by initializeTab
  uLoading,     \* the loading state last set by setLoadingState
  uPage,        \* what tabs.sendMessage(EXTRACT_POLICY) settled with
  uSent,        \* the messages sent to the background, in order
  uError,       \* the message handleAnalysisError put in scoreDesc
  uShown        \* the analysis displayAnalysis was given

normVars == <<nPc, nResponse, nResult, nAfter>>
chunkVars == <<cPc, cText, cI, cChunks>>
mergeVars == <<mPc, mReplies, mResults, mMerged>>
llmVars == <<pc, store, policyText, calls, inflight, fetched, chunkResults, arrived,
             merges, outcome>>
callVars == <<kPc, kSettled, kResult>>
bgVars == <<analysisCache, openTabs, requests, badge, got>>
popupVars == <<uPc, uStore, currentTabId, uLoading, uPage, uSent, uError, uShown>>
vars == <<normVars, chunkVars, mergeVars, llmVars, callVars, bgVars, popupVars>>

-----------------------------------------------------------------------------
(* JavaScript values *)

Undefined == [t |-> "undefined"]
Null == [t |-> "null"]
Str(s) == [t |-> "string", s |-> s]
Text(x) == [t |-> "string", x |-> x]
Num(n) == [t |-> "number", n |-> n]
Bool(b) == [t |-> "boolean", b |-> b]
Arr(a) == [t |-> "array", a |-> a]
Obj(m) == [t |-> "object", m |-> m]

\* no properties
NoProps == [k \in {} |-> Undefined]

\* An object literal: the listed properties except those given as undefined
\* (a JSON text cannot carry an undefined property).
MkObj(r) == Obj([k \in {p \in DOMAIN r : r[p] # Undefined} |-> r[k]])

Return(v) == [c |-> "return", v |-> v]
Throw(e) == [c |-> "throw", v |-> e]
Error(name, message) == [t |-> "error", name |-> name, message |-> Str(message)]
\* Errors raised by the engine; their message text is engine-specific.
TypeError == Error("TypeError", <<>>)
SyntaxError == Error("SyntaxError", <<>>)

\* typeof v
TypeOf(v) ==
  CASE v.t \in {"object", "array", "null", "error"} -> "object"
    [] OTHER -> v.t

Nullish(v) == v.t \in {"undefined", "null"}
IsPrimitive(v) == v.t \in {"undefined", "null", "string", "number", "boolean"}

\* The units of a string: characters of a data string, lexemes of a reply text.
Units(v) == IF "x" \in DOMAIN v THEN v.x ELSE v.s

\* ToBoolean(v): the test of !v, ||, ?: and if
Truthy(v) ==
  CASE v.t \in {"undefined", "null"} -> FALSE
    [] v.t = "string" -> Units(v) # <<>>
    [] v.t = "number" -> v.n # 0
    [] v.t = "boolean" -> v.b
    [] OTHER -> TRUE

\* v[k] for a v that is neither null nor undefined (own data properties, and
\* length of strings and arrays; methods are modelled where they are called).
Get(v, k) ==
  CASE v.t = "object" -> IF k \in DOMAIN v.m THEN v.m[k] ELSE Undefined
    [] v.t = "array" -> IF k = "length" THEN Num(Len(v.a)) ELSE Undefined
    [] v.t = "string" -> IF k = "length" THEN Num(Len(Units(v))) ELSE Undefined
    [] OTHER -> Undefined

\* v?.k
OptGet(v, k) == IF Nullish(v) THEN Undefined ELSE Get(v, k)

\* a || b
Or(a, b) == IF Truthy(a) THEN a ELSE b

\* v > n for a number n: a non-number v of the model (undefined, a data
\* string of letters, an object, an array of several elements) converts to NaN.
GreaterThan(v, n) == v.t = "number" /\ v.n > n

IsArray(v) == v.t = "array"

\* String.prototype.toUpperCase on one character
UpperChar(c) ==
  CASE c = "a" -> "A" [] c = "b" -> "B" [] c = "c" -> "C" [] c = "d" -> "D"
    [] c = "e" -> "E" [] c = "f" -> "F" [] c = "z" -> "Z"
    [] OTHER -> c

toUpperCase(v) == Str([i \in 1..Len(v.s) |-> UpperChar(v.s[i])])

\* Array.prototype.indexOf / includes (0-based, -1 when absent)
RECURSIVE IndexFrom(_, _, _)
IndexFrom(seq, v, i) ==
  IF i > Len(seq) THEN -1
  ELSE IF seq[i] = v THEN i - 1
  ELSE IndexFrom(seq, v, i + 1)

indexOf(seq, v) == IndexFrom(seq, v, 1)
includes(seq, v) == indexOf(seq, v) # -1

Min(a, b) == IF a < b THEN a ELSE b
Max(a, b) == IF a > b THEN a ELSE b

-----------------------------------------------------------------------------
(* Fixed strings of the source *)

\* 'Unable to parse the analysis. Check your API settings and try again.'
SENTINEL_SUMMARY ==
  <<"U","n","a","b","l","e"," ","t","o"," ","p","a","r","s","e"," ","t","h",
    "e"," ","a","n","a","l","y","s","i","s","."," ","C","h","e","c","k"," ",
    "y","o","u","r"," ","A","P","I"," ","s","e","t","t","i","n","g","s"," ",
    "a","n","d"," ","t","r","y"," ","a","g","a","i","n",".">>

\* 'Analysis complete. Review the findings below.'
FALLBACK_SUMMARY ==
  <<"A","n","a","l","y","s","i","s"," ","c","o","m","p","l","e","t","e",".",
    " ","R","e","v","i","e","w"," ","t","h","e"," ","f","i","n","d","i","n",
    "g","s"," ","b","e","l","o","w",".">>

\* 'Analysis complete.'
MERGE_FALLBACK_SUMMARY ==
  <<"A","n","a","l","y","s","i","s"," ","c","o","m","p","l","e","t","e",".">>

\* 'Please configure your API settings (endpoint, model, and API key).'
CONFIG_MESSAGE ==
  <<"P","l","e","a","s","e"," ","c","o","n","f","i","g","u","r","e"," ","y",
    "o","u","r"," ","A","P","I"," ","s","e","t","t","i","n","g","s"," ","(",
    "e","n","d","p","o","i","n","t",","," ","m","o","d","e","l",","," ","a",
    "n","d"," ","A","P","I"," ","k","e","y",")",".">>

\* A one-character string, e.g. a grade
Ch(c) == Str(<<c>>)

validGrades == <<Ch("A"), Ch("B"), Ch("C"), Ch("D"), Ch("F")>>
gradeOrder == <<Ch("A"), Ch("B"), Ch("C"), Ch("D"), Ch("F")>>

SAFE == Str(<<"s","a","f","e">>)
UNKNOWN == Str(<<"u","n","k","n","o","w","n">>)
WARNING == Str(<<"w","a","r","n","i","n","g">>)
DANGER == Str(<<"d","a","n","g","e","r">>)
statusOrder == <<SAFE, UNKNOWN, WARNING, DANGER>>

-----------------------------------------------------------------------------
(* extractJSON: the text of a reply is a sequence of lexemes *)

WS == [k |-> "ws"]                          \* a run of white space
FENCE == [k |-> "fence"]                    \* ```
LBRACE == [k |-> "lbrace"]                  \* {
RBRACE == [k |-> "rbrace"]                  \* }
Word(w) == [k |-> "word", w |-> w]          \* any other run of prose
Members(m) == [k |-> "members", m |-> m]    \* the member list of the object m, braces excluded
Literal(v) == [k |-> "literal", v |-> v]    \* the JSON text of a value that is not an object

\* The lexemes of a string: a data string holds letters and spaces only.
Lexemes(v) ==
  IF "x" \in DOMAIN v THEN v.x
  ELSE [i \in 1..Len(v.s) |-> IF v.s[i] = " " THEN WS ELSE Word(v.s[i])]

RECURSIVE DropLeadingWs(_)
DropLeadingWs(x) ==
  IF x # <<>> /\ Head(x) = WS THEN DropLeadingWs(Tail(x)) ELSE x

RECURSIVE DropTrailingWs(_)
DropTrailingWs(x) ==
  IF x # <<>> /\ x[Len(x)] = WS THEN DropTrailingWs(SubSeq(x, 1, Len(x) - 1)) ELSE x

\* String.prototype.trim
trim(x) == DropTrailingWs(DropLeadingWs(x))

startsWithFence(x) == x # <<>> /\ Head(x) = FENCE

\* .replace(/^```(?:json)?\s*/, '') on a text that starts with ```
StripLeadingFence(x) ==
  LET a == Tail(x)
      b == IF a # <<>> /\ Head(a) = Word("json") THEN Tail(a) ELSE a
  IN DropLeadingWs(b)

\* .replace(/\s*```$/, '')
StripTrailingFence(x) ==
  IF x # <<>> /\ x[Len(x)] = FENCE
  THEN DropTrailingWs(SubSeq(x, 1, Len(x) - 1))
  ELSE x

\* indexOf('{') and lastIndexOf('}'), 0-based, -1 when absent
RECURSIVE LastIndexFrom(_, _, _)
LastIndexFrom(x, v, i) ==
  IF i < 1 THEN -1
  ELSE IF x[i] = v THEN i - 1
  ELSE LastIndexFrom(x, v, i - 1)

lastIndexOf(x, v) == LastIndexFrom(x, v, Len(x))

\* String.prototype.substring(a, b) for 0 <= a, b <= length: the arguments
\* are swapped when a > b.
substring(x, a, b) == SubSeq(x, Min(a, b) + 1, Max(a, b))

RECURSIVE WithoutWs(_)
WithoutWs(x) ==
  IF x = <<>> THEN <<>>
  ELSE IF Head(x) = WS THEN WithoutWs(Tail(x))
  ELSE <<Head(x)>> \o WithoutWs(Tail(x))

\* JSON.parse: white space between tokens is insignificant; the text must be
\* one value, that is { members }, { } or one literal.
JSONparse(x) ==
  LET y == WithoutWs(x) IN
  CASE Len(y) = 3 /\ y[1] = LBRACE /\ y[2].k = "members" /\ y[3] = RBRACE -> Return(Obj(y[2].m))
    [] Len(y) = 2 /\ y[1] = LBRACE /\ y[2] = RBRACE -> Return(Obj(NoProps))
    [] Len(y) = 1 /\ y[1].k = "literal" -> Return(y[1].v)
    [] OTHER -> Throw(SyntaxError)

extractJSON(text) ==
  LET trimmed == trim(Lexemes(text))
      clean == IF startsWithFence(trimmed)
               THEN StripTrailingFence(StripLeadingFence(trimmed))
               ELSE trimmed
      start == indexOf(clean, LBRACE)
      end == lastIndexOf(clean, RBRACE)
  IN JSONparse(IF start # -1 /\ end # -1
               THEN substring(clean, start, end + 1)
               ELSE clean)

-----------------------------------------------------------------------------
(* parseAnalysisResponse *)

AnalysisResult(grade, summary, dirtyDozen, good, bad, criticalQuotes) ==
  Obj([grade |-> grade, summary |-> summary, dirtyDozen |-> dirtyDozen,
       highlights |-> Obj([good |-> good, bad |-> bad]),
       criticalQuotes |-> criticalQuotes])

\* the object returned by the catch block
Sentinel ==
  AnalysisResult(Ch("?"), Str(SENTINEL_SUMMARY), Obj(NoProps), Arr(<<>>), Arr(<<>>), Arr(<<>>))

\* The grade kept as the reply gives it when it is a letter of the list in
\* either case, without upper-casing it
NormalizeGradeAsGiven(parsed) ==
  IF Nullish(parsed) THEN Throw(TypeError)
  ELSE LET g == Get(parsed, "grade") IN
    IF ~Truthy(g)
    THEN IF IsPrimitive(parsed) THEN Throw(TypeError) ELSE Return(Ch("C"))
    ELSE IF g.t # "string" THEN Throw(TypeError)
    ELSE IF ~includes(validGrades, toUpperCase(g)) THEN Return(Ch("C"))
    ELSE Return(g)

\* An unrecognised grade kept as it is instead of being forced to 'C'
NormalizeGradeUnforced(parsed) ==
  IF Nullish(parsed) THEN Throw(TypeError)
  ELSE LET g == Get(parsed, "grade") IN
    IF ~Truthy(g)
    THEN IF IsPrimitive(parsed) THEN Throw(TypeError) ELSE Return(Ch("C"))
    ELSE IF g.t # "string" THEN Throw(TypeError)
    ELSE Return(toUpperCase(g))

\* Lines 451-457: the grade stored into parsed.grade, or the TypeError of
\* reading a property of null/undefined, of calling toUpperCase on a value
\* that has none, or (the module is strict code) of assigning a property of a
\* primitive.
NormalizeGrade(parsed) ==
  IF Nullish(parsed) THEN Throw(TypeError)
  ELSE LET g == Get(parsed, "grade") IN
    IF ~Truthy(g)
    THEN IF IsPrimitive(parsed) THEN Throw(TypeError) ELSE Return(Ch("C"))
    ELSE IF g.t # "string" THEN Throw(TypeError)
    ELSE IF ~includes(validGrades, toUpperCase(g)) THEN Return(Ch("C"))
    ELSE Return(toUpperCase(g))

\* One test for both highlight lists: either is kept only if both are arrays
ValidatedHighlightsTogether(parsed, grade) ==
  LET summary == Get(parsed, "summary")
      dirtyDozen == Get(parsed, "dirtyDozen")
      good == OptGet(Get(parsed, "highlights"), "good")
      bad == OptGet(Get(parsed, "highlights"), "bad")
      criticalQuotes == Get(parsed, "criticalQuotes")
  IN AnalysisResult(
       grade,
       IF GreaterThan(OptGet(summary, "length"), 10) THEN summary ELSE Str(FALLBACK_SUMMARY),
       IF TypeOf(dirtyDozen) = "object" THEN dirtyDozen ELSE Obj(NoProps),
       IF IsArray(good) /\ IsArray(bad) THEN good ELSE Arr(<<>>),
       IF IsArray(good) /\ IsArray(bad) THEN bad ELSE Arr(<<>>),
       IF IsArray(criticalQuotes) THEN criticalQuotes ELSE Arr(<<>>))

\* Lines 460-469: the returned object, given the normalized grade
Validated(parsed, grade) ==
  LET summary == Get(parsed, "summary")
      dirtyDozen == Get(parsed, "dirtyDozen")
      good == OptGet(Get(parsed, "highlights"), "good")
      bad == OptGet(Get(parsed, "highlights"), "bad")
      criticalQuotes == Get(parsed, "criticalQuotes")
  IN AnalysisResult(
       grade,
       IF GreaterThan(OptGet(summary, "length"), 10) THEN summary ELSE Str(FALLBACK_SUMMARY),
       IF TypeOf(dirtyDozen) = "object" THEN dirtyDozen ELSE Obj(NoProps),
       IF IsArray(good) THEN good ELSE Arr(<<>>),
       IF IsArray(bad) THEN bad ELSE Arr(<<>>),
       IF IsArray(criticalQuotes) THEN criticalQuotes ELSE Arr(<<>>))

\* The try block without the typeof test of line 449: every response is
\* handed to extractJSON, whose text.trim() exists on strings only
TryParseTextOnly(response) ==
  LET extracted == IF TypeOf(response) = "string" THEN extractJSON(response) ELSE Throw(TypeError)
  IN IF extracted.c = "throw" THEN extracted
     ELSE LET grade == NormalizeGrade(extracted.v)
          IN IF grade.c = "throw" THEN grade
             ELSE Return(Validated(extracted.v, grade.v))

\* Lines 449-469: the try block
TryParse(response) ==
  LET extracted == IF TypeOf(response) = "string" THEN extractJSON(response) ELSE Return(response)
  IN IF extracted.c = "throw" THEN extracted
     ELSE LET grade == NormalizeGrade(extracted.v)
          IN IF grade.c = "throw" THEN grade
             ELSE Return(Validated(extracted.v, grade.v))

\* try { ... } without its catch block
ParseUncaught(response) == TryParse(response)

parseAnalysisResponse(response) ==
  IF TryParse(response).c = "throw" THEN Return(Sentinel) ELSE TryParse(response)

\* The caller's argument after the call. For a response that is not a string,
\* parsed is the argument itself, and lines 453-457 assign its grade.
ArgumentAfter(response) ==
  IF TypeOf(response) = "string" \/ NormalizeGrade(response).c = "throw"
  THEN response
  ELSE IF response.t = "object"
  THEN Obj([k \in DOMAIN response.m \cup {"grade"} |->
              IF k = "grade" THEN NormalizeGrade(response).v ELSE response.m[k]])
  ELSE [t |-> response.t, a |-> response.a, grade |-> NormalizeGrade(response).v]

-----------------------------------------------------------------------------
(* analyzeInChunks, lines 329-334: the chunks of a long document.  A document
   is known by its length; a slice of it is the span [from, to) it covers. *)

MAX_TEXT_LENGTH == 50000
CHUNK_RESERVE == 5000

\* chunks as long as the threshold, no room left for the prompts
ChunkSizeNoReserve == MAX_TEXT_LENGTH

chunkSize == MAX_TEXT_LENGTH - CHUNK_RESERVE

Document(n) == [len |-> n]

\* policyText.slice(a, b) for 0 <= a <= b
slice(text, a, b) == [from |-> Min(a, text.len), to |-> Min(b, text.len)]

\* a slice that runs one character into the next chunk
PushChunkOverlapping(text, i, chunks) == Append(chunks, slice(text, i, i + chunkSize + 1))

\* chunks.push(policyText.slice(i, i + chunkSize))
PushChunk(text, i, chunks) == Append(chunks, slice(text, i, i + chunkSize))

\* i += chunkSize
NextOffset(i) == i + chunkSize

RECURSIVE ChunkLoop(_, _, _)
ChunkLoop(text, i, chunks) ==
  IF i < text.len
  THEN ChunkLoop(text, NextOffset(i), PushChunk(text, i, chunks))
  ELSE chunks

Chunks(text) == ChunkLoop(text, 0, <<>>)

-----------------------------------------------------------------------------
(* mergeChunkResults *)

\* results.reduce(..., 'A'), lines 360-364
WorseGrade(worst, r) ==
  IF indexOf(gradeOrder, Get(r, "grade")) > indexOf(gradeOrder, worst)
  THEN Get(r, "grade")
  ELSE worst

RECURSIVE ReduceGrade(_, _)
ReduceGrade(results, worst) ==
  IF results = <<>> THEN worst
  ELSE ReduceGrade(Tail(results), WorseGrade(worst, Head(results)))

\* reduce without its initial value: the accumulator starts at the first grade
WorstGradeNoInitial(results) == ReduceGrade(Tail(results), Get(Head(results), "grade"))

worstGrade(results) == ReduceGrade(results, Ch("A"))

\* The property name of an array index
IndexKey(i) ==
  CASE i = 0 -> "0" [] i = 1 -> "1" [] i = 2 -> "2" [] i = 3 -> "3" [] OTHER -> "4"

\* Object.entries(result.dirtyDozen || {}) as a map from key to value
Entries(result) ==
  LET dd == Or(Get(result, "dirtyDozen"), Obj(NoProps)) IN
  CASE dd.t = "object" -> dd.m
    [] dd.t = "array" ->
         [k \in {IndexKey(i - 1) : i \in 1..Len(dd.a)} |->
            dd.a[CHOOSE i \in 1..Len(dd.a) : IndexKey(i - 1) = k]]
    [] OTHER -> NoProps

\* >= in place of >: on equal statuses the later finding replaces the kept one
MergeEntryLastWins(existing, value) ==
  IF ~Truthy(existing) THEN Return(value)
  ELSE IF Nullish(value) THEN Throw(TypeError)
  ELSE IF indexOf(statusOrder, Get(value, "status")) >=
          indexOf(statusOrder, Get(existing, "status"))
       THEN Return(value)
       ELSE Return(existing)

\* A merge that keeps whichever finding of a category it saw first
MergeEntryFirstWins(existing, value) ==
  IF ~Truthy(existing) THEN Return(value)
  ELSE IF Nullish(value) THEN Throw(TypeError)
  ELSE Return(existing)

\* Lines 370-373 for one entry: the value of mergedDirtyDozen[key] afterwards,
\* or the TypeError of reading value.status on null.
MergeEntry(existing, value) ==
  IF ~Truthy(existing) THEN Return(value)
  ELSE IF Nullish(value) THEN Throw(TypeError)
  ELSE IF indexOf(statusOrder, Get(value, "status")) >
          indexOf(statusOrder, Get(existing, "status"))
       THEN Return(value)
       ELSE Return(existing)

\* The forEach of lines 368-375 restricted to one key: the entries of one key
\* are visited in chunk order and do not depend on the other keys.
RECURSIVE MergeKey(_, _, _)
MergeKey(results, key, existing) ==
  IF results = <<>> THEN Return(existing)
  ELSE IF key \notin DOMAIN Entries(Head(results))
       THEN MergeKey(Tail(results), key, existing)
       ELSE LET step == MergeEntry(existing, Entries(Head(results))[key])
            IN IF step.c = "throw" THEN step
               ELSE MergeKey(Tail(results), key, step.v)

MergedKeys(results) ==
  UNION {DOMAIN Entries(results[i]) : i \in 1..Len(results)}

mergedDirtyDozen(results) ==
  IF \E key \in MergedKeys(results) : MergeKey(results, key, Undefined).c = "throw"
  THEN Throw(TypeError)
  ELSE Return(Obj([key \in MergedKeys(results) |-> MergeKey(results, key, Undefined).v]))

\* What flatMap appends for one callback result
FlatItems(v) == IF IsArray(v) THEN v.a ELSE <<v>>

\* Array.prototype.flatMap, given the callback's results
RECURSIVE flat(_)
flat(vals) ==
  IF vals = <<>> THEN <<>> ELSE FlatItems(Head(vals)) \o flat(Tail(vals))

\* Set membership (SameValueZero): primitives by value, objects by identity,
\* and two objects taken from parsed replies are never the same object.
SameValueZero(a, b) == IsPrimitive(a) /\ a = b

\* [...new Set(items)]: first occurrences, in order
RECURSIVE Distinct(_, _)
Distinct(items, kept) ==
  IF items = <<>> THEN kept
  ELSE IF \E i \in 1..Len(kept) : SameValueZero(kept[i], Head(items))
       THEN Distinct(Tail(items), kept)
       ELSE Distinct(Tail(items), Append(kept, Head(items)))

\* Array.prototype.slice(0, n)
FirstN(items, n) == SubSeq(items, 1, Min(n, Len(items)))

GoodOf(r) == Or(OptGet(Get(r, "highlights"), "good"), Arr(<<>>))
BadOf(r) == Or(OptGet(Get(r, "highlights"), "bad"), Arr(<<>>))
QuotesOf(r) == Or(Get(r, "criticalQuotes"), Arr(<<>>))

\* The good highlights of all chunks without the Set: duplicates stay
AllGoodWithDuplicates(results) == flat([i \in 1..Len(results) |-> GoodOf(results[i])])

\* Quotes deduplicated the way the highlights are, equal quotes counting once
RECURSIVE DistinctByValue(_, _)
DistinctByValue(items, kept) ==
  IF items = <<>> THEN kept
  ELSE IF \E i \in 1..Len(kept) : kept[i] = Head(items)
       THEN DistinctByValue(Tail(items), kept)
       ELSE DistinctByValue(Tail(items), Append(kept, Head(items)))

AllQuotesDeduplicated(results) ==
  DistinctByValue(flat([i \in 1..Len(results) |-> QuotesOf(results[i])]), <<>>)

allGood(results) == Distinct(flat([i \in 1..Len(results) |-> GoodOf(results[i])]), <<>>)
allBad(results) == Distinct(flat([i \in 1..Len(results) |-> BadOf(results[i])]), <<>>)
allQuotes(results) == flat([i \in 1..Len(results) |-> QuotesOf(results[i])])

\* The summary of the last chunk in place of the first
MergedSummaryOfLast(results) ==
  Or(IF results = <<>> THEN Undefined ELSE Get(results[Len(results)], "summary"),
     Str(MERGE_FALLBACK_SUMMARY))

\* results[0]?.summary || 'Analysis complete.'
MergedSummary(results) ==
  Or(IF results = <<>> THEN Undefined ELSE Get(results[1], "summary"),
     Str(MERGE_FALLBACK_SUMMARY))

mergeChunkResults(results) ==
  IF mergedDirtyDozen(results).c = "throw" THEN mergedDirtyDozen(results)
  ELSE Return(AnalysisResult(
         worstGrade(results),
         MergedSummary(results),
         mergedDirtyDozen(results).v,
         Arr(FirstN(allGood(results), 5)),
         Arr(FirstN(allBad(results), 10)),
         Arr(FirstN(allQuotes(results), 5))))

-----------------------------------------------------------------------------
(* callLLM *)

\* 'Bad request - check your API endpoint and model name'
MSG_400 ==
  <<"B","a","d"," ","r","e","q","u","e","s","t"," ","-"," ","c","h","e","c",
    "k"," ","y","o","u","r"," ","A","P","I"," ","e","n","d","p","o","i","n",
    "t"," ","a","n","d"," ","m","o","d","e","l"," ","n","a","m","e">>

\* 'Invalid API key - please check your API key in settings'
MSG_401 ==
  <<"I","n","v","a","l","i","d"," ","A","P","I"," ","k","e","y"," ","-"," ",
    "p","l","e","a","s","e"," ","c","h","e","c","k"," ","y","o","u","r"," ",
    "A","P","I"," ","k","e","y"," ","i","n"," ","s","e","t","t","i","n","g",
    "s">>

\* 'Access denied - your API key may not have permission for this model'
MSG_403 ==
  <<"A","c","c","e","s","s"," ","d","e","n","i","e","d"," ","-"," ","y","o",
    "u","r"," ","A","P","I"," ","k","e","y"," ","m","a","y"," ","n","o","t",
    " ","h","a","v","e"," ","p","e","r","m","i","s","s","i","o","n"," ","f",
    "o","r"," ","t","h","i","s"," ","m","o","d","e","l">>

\* 'Not found - check your API endpoint URL'
MSG_404 ==
  <<"N","o","t"," ","f","o","u","n","d"," ","-"," ","c","h","e","c","k"," ",
    "y","o","u","r"," ","A","P","I"," ","e","n","d","p","o","i","n","t"," ",
    "U","R","L">>

\* 'Rate limit exceeded - please wait a moment and try again'
MSG_429 ==
  <<"R","a","t","e"," ","l","i","m","i","t"," ","e","x","c","e","e","d","e",
    "d"," ","-"," ","p","l","e","a","s","e"," ","w","a","i","t"," ","a"," ",
    "m","o","m","e","n","t"," ","a","n","d"," ","t","r","y"," ","a","g","a",
    "i","n">>

\* 'Server error - the API service is having issues'
MSG_500 ==
  <<"S","e","r","v","e","r"," ","e","r","r","o","r"," ","-"," ","t","h","e",
    " ","A","P","I"," ","s","e","r","v","i","c","e"," ","i","s"," ","h","a",
    "v","i","n","g"," ","i","s","s","u","e","s">>

\* 'Bad gateway - the API service is temporarily unavailable'
MSG_502 ==
  <<"B","a","d"," ","g","a","t","e","w","a","y"," ","-"," ","t","h","e"," ",
    "A","P","I"," ","s","e","r","v","i","c","e"," ","i","s"," ","t","e","m",
    "p","o","r","a","r","i","l","y"," ","u","n","a","v","a","i","l","a","b",
    "l","e">>

\* 'Service unavailable - the API service is temporarily down'
MSG_503 ==
  <<"S","e","r","v","i","c","e"," ","u","n","a","v","a","i","l","a","b","l",
    "e"," ","-"," ","t","h","e"," ","A","P","I"," ","s","e","r","v","i","c",
    "e"," ","i","s"," ","t","e","m","p","o","r","a","r","i","l","y"," ","d",
    "o","w","n">>

\* 'Request failed ('
REQUEST_FAILED ==
  <<"R","e","q","u","e","s","t"," ","f","a","i","l","e","d"," ","(">>

\* 'Failed to fetch'
FAILED_TO_FETCH ==
  <<"F","a","i","l","e","d"," ","t","o"," ","f","e","t","c","h">>

\* '[object Object]'
OBJECT_OBJECT ==
  <<"[","o","b","j","e","c","t"," ","O","b","j","e","c","t","]">>
\* HTTP_ERROR_MESSAGES[status]
HTTP_ERROR_MESSAGES(status) ==
  CASE status = 400 -> Str(MSG_400) [] status = 401 -> Str(MSG_401)
    [] status = 403 -> Str(MSG_403) [] status = 404 -> Str(MSG_404)
    [] status = 429 -> Str(MSG_429) [] status = 500 -> Str(MSG_500)
    [] status = 502 -> Str(MSG_502) [] status = 503 -> Str(MSG_503)
    [] OTHER -> Undefined

Digit(d) ==
  CASE d = 0 -> "0" [] d = 1 -> "1" [] d = 2 -> "2" [] d = 3 -> "3" [] d = 4 -> "4"
    [] d = 5 -> "5" [] d = 6 -> "6" [] d = 7 -> "7" [] d = 8 -> "8" [] OTHER -> "9"

\* The decimal digits of a natural number
RECURSIVE Digits(_)
Digits(n) == IF n < 10 THEN <<Digit(n)>> ELSE Digits(n \div 10) \o <<Digit(n % 10)>>

\* String(v), as new Error(v) applies it to its message
StringOf(v) ==
  CASE v.t = "string" -> v
    [] v.t = "number" -> Str(Digits(v.n))
    [] OTHER -> Str(OBJECT_OBJECT)

\* A settled fetch: a response with its status and the completion of
\* response.json(), or a rejection (the network failed).
HttpResponse(status, json) == [kind |-> "response", status |-> status, json |-> json]
NetworkFailure == [kind |-> "rejected"]

\* response.ok
Ok(response) == response.status \in 200..299

\* v?.[0]
OptFirst(v) ==
  CASE Nullish(v) -> Undefined
    [] v.t = "array" -> IF Len(v.a) > 0 THEN v.a[1] ELSE Undefined
    [] v.t = "object" -> Get(v, "0")
    [] OTHER -> Undefined

\* Lines 425-432: the error thrown for a response that is not ok
HttpError(response) ==
  LET errorData == IF response.json.c = "throw" THEN Obj(NoProps) ELSE response.json.v IN
  IF Nullish(errorData) THEN Throw(TypeError)
  ELSE Throw(Error("Error",
         StringOf(Or(OptGet(Get(errorData, "error"), "message"),
                  Or(Get(errorData, "message"),
                  Or(HTTP_ERROR_MESSAGES(response.status),
                     Str(REQUEST_FAILED \o Digits(response.status) \o <<")">>))))).s))

\* Lines 434-439: the content of a response that is ok
ReplyContent(response) ==
  IF response.json.c = "throw" THEN response.json
  ELSE IF Nullish(response.json.v) THEN Throw(TypeError)
  ELSE Return(
    Or(OptGet(OptGet(OptFirst(Get(response.json.v, "choices")), "message"), "content"),
    Or(OptGet(OptFirst(OptGet(OptGet(OptFirst(Get(response.json.v, "candidates")), "content"), "parts")), "text"),
       Str(<<>>))))

\* callLLM from the moment its fetch settles (lines 425-439)
callLLM(settled) ==
  IF settled.kind = "rejected" THEN Throw(Error("TypeError", FAILED_TO_FETCH))
  ELSE IF ~Ok(settled) THEN HttpError(settled)
  ELSE ReplyContent(settled)

\* Completions and promises still pending
Pending == [c |-> "pending"]
Unsettled == [kind |-> "inflight"]
Resolved(v) == [state |-> "resolved", v |-> v]
Rejected(e) == [state |-> "rejected", v |-> e]
PendingPromise == [state |-> "pending"]

-----------------------------------------------------------------------------
(* Inputs *)

MaxTextLexemes == 3
MaxResults == 3
MaxBlocks == 27
MaxChunks == 3

\* 'ok', 'fine', 'sells data', 'Fine print.' (11 characters), 'Fine print' (10)
OK == Str(<<"o","k">>)
FINE == Str(<<"f","i","n","e">>)
SELLS_DATA == Str(<<"s","e","l","l","s"," ","d","a","t","a">>)
SUMMARY_11 == Str(<<"F","i","n","e"," ","p","r","i","n","t",".">>)
SUMMARY_10 == Str(<<"F","i","n","e"," ","p","r","i","n","t">>)
BOGUS == Str(<<"b","o","g","u","s">>)

Finding(status, finding) == Obj([status |-> status, finding |-> finding])
Quote == Obj([text |-> FINE, concern |-> OK])

\* A well-formed reply object; the sets below vary one property of it.
BaseFields ==
  [grade |-> Ch("b"),
   summary |-> SUMMARY_11,
   dirtyDozen |-> Obj([data_sale |-> Finding(SAFE, OK)]),
   highlights |-> Obj([good |-> Arr(<<Ch("a"), Ch("b")>>), bad |-> Arr(<<Ch("c")>>)]),
   criticalQuotes |-> Arr(<<Quote>>)]

GradeValues ==
  {Undefined, Null, Str(<<>>), Ch("a"), Ch("B"), Ch("c"), Ch("D"), Ch("f"), Ch("e"),
   Ch("Z"), Ch("?"), Str(<<"A", "B">>), Num(0), Num(5), Bool(TRUE), Bool(FALSE),
   Arr(<<>>), Obj(NoProps)}

SummaryValues ==
  {Undefined, Null, Str(<<>>), SUMMARY_10, SUMMARY_11, Num(12),
   Arr([i \in 1..11 |-> Ch("x")])}

DirtyDozenValues ==
  {Undefined, Null, Str(<<"x">>), Num(1), Arr(<<>>), Arr(<<Null>>), Obj(NoProps),
   Obj([data_sale |-> Null]),
   Obj([data_sale |-> Finding(BOGUS, OK)]),
   Obj([data_sale |-> Finding(DANGER, SELLS_DATA), ai_training |-> Finding(UNKNOWN, FINE)])}

HighlightsValues ==
  {Undefined, Null, Str(<<"x">>), Arr(<<>>), Obj(NoProps),
   Obj([good |-> Arr(<<Ch("a")>>)]),
   Obj([bad |-> Arr(<<Ch("c")>>)]),
   Obj([good |-> Str(<<"x">>), bad |-> Arr(<<Ch("c")>>)]),
   Obj([good |-> Arr(<<Ch("a")>>), bad |-> Null])}

QuotesValues == {Undefined, Null, Str(<<"x">>), Obj(NoProps), Arr(<<>>), Arr(<<Quote, Quote>>)}

ReplyObjects ==
  {MkObj([BaseFields EXCEPT !.grade = v]) : v \in GradeValues}
  \cup {MkObj([BaseFields EXCEPT !.summary = v]) : v \in SummaryValues}
  \cup {MkObj([BaseFields EXCEPT !.dirtyDozen = v]) : v \in DirtyDozenValues}
  \cup {MkObj([BaseFields EXCEPT !.highlights = v]) : v \in HighlightsValues}
  \cup {MkObj([BaseFields EXCEPT !.criticalQuotes = v]) : v \in QuotesValues}
  \cup {Obj(NoProps)}

\* The reply text '{...}' of an object, bare, in a ```json fence, and between prose
JsonText(o) == Text(<<LBRACE, Members(o.m), RBRACE>>)
FencedText(o) ==
  Text(<<FENCE, Word("json"), WS, LBRACE, Members(o.m), RBRACE, WS, FENCE>>)
ChattyText(o) ==
  Text(<<Word("Here"), WS, LBRACE, Members(o.m), RBRACE, WS, Word("Done")>>)

Alphabet ==
  {WS, FENCE, Word("json"), Word("not"), LBRACE, RBRACE,
   Members(MkObj(BaseFields).m), Literal(Num(5)), Literal(Null)}

RECURSIVE SeqsUpTo(_, _)
SeqsUpTo(S, n) ==
  IF n = 0 THEN {<<>>}
  ELSE SeqsUpTo(S, n - 1)
       \cup {Append(x, e) : x \in {y \in SeqsUpTo(S, n - 1) : Len(y) = n - 1}, e \in S}

\* "", "not json at all", "```not{closed"
EmptyText == Text(<<>>)
NotJsonAtAll == Text(<<Word("not"), WS, Word("json"), WS, Word("at"), WS, Word("all")>>)
UnclosedFence == Text(<<FENCE, Word("not"), LBRACE, Word("closed")>>)

Responses ==
  {Text(x) : x \in SeqsUpTo(Alphabet, MaxTextLexemes)}
  \cup {JsonText(o) : o \in ReplyObjects}
  \cup {FencedText(o) : o \in ReplyObjects}
  \cup {ChattyText(o) : o \in ReplyObjects}
  \cup ReplyObjects
  \cup {EmptyText, NotJsonAtAll, UnclosedFence, Str(<<>>), Str(<<"h", "i">>)}
  \cup {Undefined, Null, Num(0), Num(5), Bool(TRUE), Bool(FALSE), Arr(<<>>),
        Arr(<<Num(1)>>)}


\* Fetch outcomes of the orchestrated runs: three replies and three failures
GoodReply ==
  HttpResponse(200, Return(Obj([choices |-> Arr(<<Obj([message |-> Obj([content |->
    FencedText(MkObj([grade |-> Ch("a"), summary |-> SUMMARY_11,
                      dirtyDozen |-> Obj([data_sale |-> Finding(SAFE, OK)])]))])])>>)])))
NullFindingReply ==
  HttpResponse(200, Return(Obj([candidates |-> Arr(<<Obj([content |-> Obj([parts |->
    Arr(<<Obj([text |->
      JsonText(MkObj([grade |-> Ch("d"),
                      dirtyDozen |-> Obj([data_sale |-> Null])]))])>>)])])>>)])))
ProseReply ==
  HttpResponse(200, Return(Obj([choices |-> Arr(<<Obj([message |-> Obj([content |->
    NotJsonAtAll])])>>)])))
UnreadableBody == HttpResponse(200, Throw(SyntaxError))
RateLimited == HttpResponse(429, Throw(SyntaxError))

Fetched == {GoodReply, NullFindingReply, ProseReply, UnreadableBody, RateLimited, NetworkFailure}

\* 'quota used up' and 'try later', messages of an error body
QUOTA == Str(<<"q","u","o","t","a"," ","u","s","e","d"," ","u","p">>)
LATER == Str(<<"t","r","y"," ","l","a","t","e","r">>)

\* HTTP statuses: success, the eight of the table, and two outside it
Statuses == {200, 204, 400, 401, 403, 404, 418, 429, 500, 502, 503, 504}

\* What response.json() settles with: a body that is not JSON, the JSON
\* literals null, 5 and "x", an array, error bodies and reply bodies
Bodies ==
  {Throw(SyntaxError), Return(Null), Return(Num(5)), Return(Str(<<"x">>)), Return(Arr(<<>>)),
   Return(Obj(NoProps)),
   Return(Obj([error |-> Obj([message |-> QUOTA])])),
   Return(Obj([message |-> LATER])),
   Return(Obj([error |-> Obj([message |-> QUOTA]), message |-> LATER])),
   Return(Obj([error |-> Obj([message |-> Str(<<>>)]), message |-> LATER])),
   Return(Obj([error |-> QUOTA])),
   Return(Obj([error |-> Null, message |-> Str(<<>>)])),
   GoodReply.json, NullFindingReply.json, ProseReply.json,
   Return(Obj([choices |-> Arr(<<>>)])),
   Return(Obj([choices |-> Arr(<<Obj([message |-> Obj([content |-> Str(<<>>)])])>>),
               candidates |-> Arr(<<Obj([content |-> Obj([parts |->
                 Arr(<<Obj([text |-> NotJsonAtAll])>>)])])>>)])),
   Return(Obj([choices |-> Arr(<<Obj([message |-> Obj([content |-> EmptyText])])>>),
               candidates |-> Arr(<<Obj([content |-> Obj([parts |-> Arr(<<>>)])])>>)])),
   Return(Obj([choices |-> Arr(<<Obj([message |-> Obj([content |-> UnclosedFence])])>>),
               candidates |-> Arr(<<Obj([content |-> Obj([parts |->
                 Arr(<<Obj([text |-> NotJsonAtAll])>>)])])>>)]))}

ENDPOINT == Str(<<"u", "r", "l">>)
MODEL == Str(<<"m">>)
API_KEY == Str(<<"k">>)

\* What storage.get('settings') resolves to: no record, or a record whose
\* fields are absent, empty (as installed) or set.
Stores ==
  {Obj(NoProps), Obj([settings |-> Null])}
  \cup {Obj([settings |-> MkObj([endpoint |-> e, model |-> m, apiKey |-> k])]) :
         e \in {Undefined, Str(<<>>), ENDPOINT},
         m \in {Undefined, Str(<<>>), MODEL},
         k \in {Undefined, Str(<<>>), API_KEY}}

DocLengths ==
  {0, 1, MAX_TEXT_LENGTH - 1, MAX_TEXT_LENGTH, MAX_TEXT_LENGTH + 1}
  \cup {n \in {k * chunkSize + d : k \in 2..MaxChunks, d \in {0, 1}} :
          n <= MaxChunks * chunkSize}

Documents == {Document(n) : n \in DocLengths}

-----------------------------------------------------------------------------
(* getSettings, validateSettings *)

\* result.settings || {}
getSettings(stored) == Or(Get(stored, "settings"), Obj(NoProps))

\* validateSettings without the apiKey test
ValidateWithoutKey(settings) ==
  IF ~Truthy(Get(settings, "endpoint")) \/ ~Truthy(Get(settings, "model"))
  THEN Throw(Error("Error", CONFIG_MESSAGE))
  ELSE Return(Undefined)

validateSettings(settings) ==
  IF ~Truthy(Get(settings, "endpoint")) \/ ~Truthy(Get(settings, "model"))
     \/ ~Truthy(Get(settings, "apiKey"))
  THEN Throw(Error("Error", CONFIG_MESSAGE))
  ELSE Return(Undefined)

-----------------------------------------------------------------------------
(* analyzePolicyWithLLM, analyzeInChunks *)

\* The HTTP call of line 316-317: the whole text, the bare policy type
SingleCall(text) == [text |-> slice(text, 0, text.len), part |-> 0, of |-> 0]

\* The HTTP call of chunk i (0-based) of lines 338-342, labelled
\* `${policyType} (Part ${i + 1} of ${chunks.length})`
ChunkCall(chunks, i) == [text |-> chunks[i + 1], part |-> i + 1, of |-> Len(chunks)]

\* A loop that awaits each chunk's call before it issues the next
ChunkCallsOneByOne(chunks) == <<ChunkCall(chunks, 0)>>

\* chunks.map(async ...): every callback runs up to its fetch before map
\* returns, so all the calls are issued in the same synchronous run.
ChunkCalls(chunks) == [n \in 1..Len(chunks) |-> ChunkCall(chunks, n - 1)]

\* One chunk's callback (or the single call) once its fetch has settled:
\* callLLM, then parseAnalysisResponse on what it returned.
AnalyzeReply(response) ==
  IF callLLM(response).c = "throw" THEN callLLM(response)
  ELSE parseAnalysisResponse(callLLM(response).v)

\* What await Promise.all(chunks.map(...)) evaluates to once every callback
\* has returned: the callbacks' values in the order of the chunks, whatever
\* the order in which they settled.
PromiseAllInArrivalOrder(results, order) ==
  [k \in DOMAIN order |-> results[order[k]].v]

PromiseAll(results, order) == [n \in DOMAIN results |-> results[n].v]

\* Lines 308-317 and 329-345 up to the first network await
Analyze ==
  /\ pc = "call"
  /\ IF validateSettings(getSettings(store)).c = "throw"
     THEN /\ pc' = "rejected"
          /\ outcome' = Rejected(validateSettings(getSettings(store)).v)
          /\ UNCHANGED <<calls, inflight, fetched, chunkResults>>
     ELSE IF policyText.len > MAX_TEXT_LENGTH
     THEN /\ pc' = "chunked"
          /\ calls' = ChunkCalls(Chunks(policyText))
          /\ inflight' = DOMAIN calls'
          /\ fetched' = [n \in DOMAIN calls' |-> Unsettled]
          /\ chunkResults' = [n \in DOMAIN calls' |-> Pending]
          /\ UNCHANGED outcome
     ELSE /\ pc' = "single"
          /\ calls' = <<SingleCall(policyText)>>
          /\ inflight' = {1}
          /\ fetched' = <<Unsettled>>
          /\ UNCHANGED <<chunkResults, outcome>>
  /\ UNCHANGED <<store, policyText, arrived, merges>>
  /\ UNCHANGED <<normVars, chunkVars, mergeVars, callVars, bgVars, popupVars>>

\* Lines 317-318: the single call settles
SingleSettles ==
  /\ pc = "single"
  /\ inflight = {1}
  /\ \E response \in Fetched :
       /\ fetched' = <<response>>
       /\ outcome' = IF AnalyzeReply(response).c = "throw"
                     THEN Rejected(AnalyzeReply(response).v)
                     ELSE Resolved(AnalyzeReply(response).v)
  /\ inflight' = {}
  /\ arrived' = Append(arrived, 1)
  /\ UNCHANGED <<pc, store, policyText, calls, chunkResults, merges>>
  /\ UNCHANGED <<normVars, chunkVars, mergeVars, callVars, bgVars, popupVars>>

\* Lines 342-343 for one chunk; Promise.all rejects with the first rejection
\* and leaves the other calls in flight.
ChunkSettles ==
  /\ pc = "chunked"
  /\ \E n \in inflight : \E response \in Fetched :
       /\ inflight' = inflight \ {n}
       /\ fetched' = [fetched EXCEPT ![n] = response]
       /\ chunkResults' = [chunkResults EXCEPT ![n] = AnalyzeReply(response)]
       /\ arrived' = Append(arrived, n)
       /\ outcome' = IF AnalyzeReply(response).c = "throw" /\ outcome.state = "pending"
                     THEN Rejected(AnalyzeReply(response).v)
                     ELSE outcome
  /\ UNCHANGED <<pc, store, policyText, calls, merges, normVars, chunkVars, mergeVars, callVars, bgVars, popupVars>>

\* Line 347: Promise.all fulfilled, the results are merged in chunk order
Merge ==
  /\ pc = "chunked"
  /\ outcome.state = "pending"
  /\ \A n \in DOMAIN chunkResults : chunkResults[n].c = "return"
  /\ LET chunkResultsArray == PromiseAll(chunkResults, arrived) IN
       /\ merges' = Append(merges, chunkResultsArray)
       /\ outcome' = IF mergeChunkResults(chunkResultsArray).c = "throw"
                     THEN Rejected(mergeChunkResults(chunkResultsArray).v)
                     ELSE Resolved(mergeChunkResults(chunkResultsArray).v)
  /\ pc' = "merged"
  /\ UNCHANGED <<store, policyText, calls, inflight, fetched, chunkResults, arrived>>
  /\ UNCHANGED <<normVars, chunkVars, mergeVars, callVars, bgVars, popupVars>>

-----------------------------------------------------------------------------
(* SpecNormalize: one call of parseAnalysisResponse *)

NormIdle == nPc = "idle" /\ nResponse = Undefined /\ nResult = Pending /\ nAfter = Undefined
ChunkIdle == cPc = "idle" /\ cText = Document(0) /\ cI = 0 /\ cChunks = <<>>
MergeIdle == mPc = "idle" /\ mReplies = <<>> /\ mResults = <<>> /\ mMerged = Pending
LlmIdle ==
  /\ pc = "idle" /\ store = Obj(NoProps) /\ policyText = Document(0)
  /\ calls = <<>> /\ inflight = {} /\ fetched = <<>> /\ chunkResults = <<>>
  /\ arrived = <<>> /\ merges = <<>> /\ outcome = PendingPromise
CallIdle == kPc = "idle" /\ kSettled = Unsettled /\ kResult = Pending
BgIdle ==
  /\ analysisCache = <<>> /\ openTabs = {} /\ requests = <<>> /\ badge = <<>>
  /\ got = Undefined
PopupIdle ==
  /\ uPc = "idle" /\ uStore = Obj(NoProps) /\ currentTabId = Undefined
  /\ uLoading = FALSE /\ uPage = PendingPromise /\ uSent = <<>>
  /\ uError = Undefined /\ uShown = Undefined

InitNormalize ==
  /\ nPc = "called"
  /\ nResponse \in Responses
  /\ nResult = Pending
  /\ nAfter = nResponse
  /\ ChunkIdle /\ MergeIdle /\ LlmIdle /\ CallIdle /\ BgIdle /\ PopupIdle

Normalize ==
  /\ nPc = "called"
  /\ nResult' = parseAnalysisResponse(nResponse)
  /\ nAfter' = ArgumentAfter(nResponse)
  /\ nPc' = IF nResult'.c = "throw" THEN "threw" ELSE "returned"
  /\ UNCHANGED <<nResponse, chunkVars, mergeVars, llmVars, callVars, bgVars, popupVars>>

\* parseAnalysisResponse called on the object the previous call returned
Renormalize ==
  /\ nPc = "returned"
  /\ nResponse' = nResult.v
  /\ nResult' = parseAnalysisResponse(nResult.v)
  /\ nAfter' = ArgumentAfter(nResult.v)
  /\ nPc' = IF nResult'.c = "throw" THEN "threw" ELSE "renormalized"
  /\ UNCHANGED <<chunkVars, mergeVars, llmVars, callVars, bgVars, popupVars>>

NextNormalize == Normalize \/ Renormalize

SpecNormalize == InitNormalize /\ [][NextNormalize]_vars

-----------------------------------------------------------------------------
(* SpecChunk: the chunking loop of analyzeInChunks on a long document *)

\* Lengths above the threshold: the multiples of the reserve up to MaxBlocks
\* of them, each with its two neighbours.
LongLengths ==
  {n \in {b * CHUNK_RESERVE + d : b \in 10..MaxBlocks, d \in {-1, 0, 1}} :
     n > MAX_TEXT_LENGTH}

InitChunk ==
  /\ cPc = "loop"
  /\ cText \in {Document(n) : n \in LongLengths}
  /\ cI = 0
  /\ cChunks = <<>>
  /\ NormIdle /\ MergeIdle /\ LlmIdle /\ CallIdle /\ BgIdle /\ PopupIdle

\* One iteration of the for loop of lines 332-334
ChunkStep ==
  /\ cPc = "loop"
  /\ cI < cText.len
  /\ cChunks' = PushChunk(cText, cI, cChunks)
  /\ cI' = NextOffset(cI)
  /\ UNCHANGED <<cPc, cText, normVars, mergeVars, llmVars, callVars, bgVars, popupVars>>

\* The loop condition fails
ChunkExit ==
  /\ cPc = "loop"
  /\ ~(cI < cText.len)
  /\ cPc' = "done"
  /\ UNCHANGED <<cText, cI, cChunks, normVars, mergeVars, llmVars, callVars, bgVars, popupVars>>

NextChunk == ChunkStep \/ ChunkExit

SpecChunk == InitChunk /\ [][NextChunk]_vars

-----------------------------------------------------------------------------
(* SpecMerge: mergeChunkResults on the normalized replies of 2..MaxResults chunks *)

\* Chunk replies that differ in their grade only
GradeReplies ==
  {JsonText(MkObj([grade |-> g])) :
     g \in {Ch("A"), Ch("b"), Ch("D"), Ch("f"), Ch("e"), Ch("?"), Num(5), Undefined}}
  \cup {NotJsonAtAll}

\* Chunk replies that differ in what they report for data_sale
FindingReplies ==
  {JsonText(MkObj([grade |-> Ch("c"), dirtyDozen |-> Obj([data_sale |-> f])])) :
     f \in {Finding(SAFE, OK), Finding(SAFE, FINE), Finding(UNKNOWN, OK),
            Finding(WARNING, OK), Finding(DANGER, SELLS_DATA), Finding(BOGUS, OK), Null}}
  \cup {JsonText(MkObj([grade |-> Ch("B"),
                        dirtyDozen |-> Obj([data_sale |-> Finding(DANGER, FINE),
                                            ai_training |-> Finding(WARNING, OK)])]))}
  \cup {NotJsonAtAll}

\* 'Second part.' (12 characters)
SUMMARY_12 == Str(<<"S","e","c","o","n","d"," ","p","a","r","t",".">>)

QuoteAbout(text) == Obj([text |-> text, concern |-> OK])

\* Chunk replies that differ in their summary, highlights and quotes
ListReplies ==
  {JsonText(MkObj([grade |-> Ch("b"), summary |-> SUMMARY_11,
                   highlights |-> Obj([good |-> Arr(<<Ch("a"), Ch("b")>>),
                                       bad |-> Arr(<<Ch("p")>>)]),
                   criticalQuotes |-> Arr(<<QuoteAbout(OK)>>)])),
   JsonText(MkObj([grade |-> Ch("b"), summary |-> SUMMARY_12,
                   highlights |-> Obj([good |-> Arr(<<Ch("b"), Ch("c")>>),
                                       bad |-> Arr(<<Ch("p"), Ch("q")>>)]),
                   criticalQuotes |-> Arr(<<QuoteAbout(OK), QuoteAbout(FINE)>>)])),
   JsonText(MkObj([grade |-> Ch("b"), summary |-> SUMMARY_10,
                   highlights |-> Obj([good |-> Arr(<<Ch("c"), Ch("d"), Ch("e"), Ch("f"), Ch("g")>>),
                                       bad |-> Arr(<<Ch("q"), Ch("r"), Ch("s"), Ch("t"), Ch("u"), Ch("v")>>)]),
                   criticalQuotes |-> Arr(<<QuoteAbout(SELLS_DATA), QuoteAbout(BOGUS),
                                            QuoteAbout(SUMMARY_10)>>)])),
   JsonText(MkObj([grade |-> Ch("b"),
                   highlights |-> Obj([good |-> Arr(<<Ch("a"), Ch("a"), Ch("h")>>),
                                       bad |-> Arr(<<Ch("w"), Ch("x"), Ch("y"), Ch("z"), Ch("p"), Ch("k")>>)]),
                   criticalQuotes |-> Arr(<<QuoteAbout(OK), QuoteAbout(OK)>>)])),
   NotJsonAtAll}

MergeReplySets == {GradeReplies, FindingReplies, ListReplies}

InitMerge ==
  /\ mPc = "called"
  /\ \E replies \in MergeReplySets :
       mReplies \in {x \in SeqsUpTo(replies, MaxResults) : Len(x) >= 2}
  /\ mResults = [i \in DOMAIN mReplies |-> parseAnalysisResponse(mReplies[i]).v]
  /\ mMerged = Pending
  /\ NormIdle /\ ChunkIdle /\ LlmIdle /\ CallIdle /\ BgIdle /\ PopupIdle

MergeCall ==
  /\ mPc = "called"
  /\ mMerged' = mergeChunkResults(mResults)
  /\ mPc' = IF mMerged'.c = "throw" THEN "threw" ELSE "returned"
  /\ UNCHANGED <<mReplies, mResults, normVars, chunkVars, llmVars, callVars, bgVars, popupVars>>

NextMerge == MergeCall

SpecMerge == InitMerge /\ [][NextMerge]_vars

-----------------------------------------------------------------------------
(* SpecCall: one call of callLLM *)

InitCall ==
  /\ kPc = "fetch"
  /\ kSettled = Unsettled
  /\ kResult = Pending
  /\ NormIdle /\ ChunkIdle /\ MergeIdle /\ LlmIdle /\ BgIdle /\ PopupIdle

\* Line 407: the fetch is fulfilled with a response of some status
FetchSettles ==
  /\ kPc = "fetch"
  /\ \E status \in Statuses : kSettled' = HttpResponse(status, Pending)
  /\ kPc' = "body"
  /\ UNCHANGED <<kResult, normVars, chunkVars, mergeVars, llmVars, bgVars, popupVars>>

\* Line 407: the fetch is rejected, and callLLM with it
FetchFails ==
  /\ kPc = "fetch"
  /\ kSettled' = NetworkFailure
  /\ kResult' = callLLM(kSettled')
  /\ kPc' = "threw"
  /\ UNCHANGED <<normVars, chunkVars, mergeVars, llmVars, bgVars, popupVars>>

\* Lines 425-439: response.json() settles and callLLM completes
BodySettles ==
  /\ kPc = "body"
  /\ \E json \in Bodies : kSettled' = HttpResponse(kSettled.status, json)
  /\ kResult' = callLLM(kSettled')
  /\ kPc' = IF kResult'.c = "throw" THEN "threw" ELSE "returned"
  /\ UNCHANGED <<normVars, chunkVars, mergeVars, llmVars, bgVars, popupVars>>

NextCall == FetchSettles \/ FetchFails \/ BodySettles

SpecCall == InitCall /\ [][NextCall]_vars

-----------------------------------------------------------------------------
(* Spec: one call of analyzePolicyWithLLM *)

Init ==
  /\ pc = "call"
  /\ store \in Stores
  /\ policyText \in Documents
  /\ calls = <<>>
  /\ inflight = {}
  /\ fetched = <<>>
  /\ chunkResults = <<>>
  /\ arrived = <<>>
  /\ merges = <<>>
  /\ outcome = PendingPromise
  /\ NormIdle /\ ChunkIdle /\ MergeIdle /\ CallIdle /\ BgIdle /\ PopupIdle

Next == Analyze \/ SingleSettles \/ ChunkSettles \/ Merge

Spec == Init /\ [][Next]_vars

-----------------------------------------------------------------------------
(* The background service worker: analysisCache, the badge, and the message
   router with its handlers. Date.now() timestamps and the url, which the
   handlers copy beside the domain, are left out of the entries. *)

MaxRequests == 2

\* the tabs of the browser
Tabs == {1}

\* sender.tab?.id: the id of the tab a sender runs in, undefined for a sender
\* that runs in no tab (the popup)
SenderTabIds == {Num(t) : t \in Tabs} \cup {Undefined}

DETECTED == Str(<<"d","e","t","e","c","t","e","d">>)
ANALYZING == Str(<<"a","n","a","l","y","z","i","n","g">>)
COMPLETE == Str(<<"c","o","m","p","l","e","t","e">>)
ERROR == Str(<<"e","r","r","o","r">>)
POLICY_TYPE ==
  Str(<<"T","e","r","m","s"," ","o","f"," ","S","e","r","v","i","c","e"," ","/"," ",
        "P","r","i","v","a","c","y"," ","P","o","l","i","c","y">>)
LINKS == Arr(<<Ch("l")>>)
BANG == Ch("!")

\* the hostname of the page shown in a tab
DomainOf(tab) == Str(<<"s","i","t","e">> \o Digits(tab))

\* Map.prototype.get / set / delete
MapGet(map, key) == IF key \in DOMAIN map THEN map[key] ELSE Undefined
MapSet(map, key, value) ==
  [k \in DOMAIN map \cup {key} |-> IF k = key THEN value ELSE map[k]]
MapDelete(map, key) == [k \in DOMAIN map \ {key} |-> map[k]]

\* { ...v, p1: r.p1, ... }: spreading undefined or null adds nothing
Spread(v, r) ==
  LET own == IF v.t = "object" THEN DOMAIN v.m ELSE {} IN
  Obj([k \in own \cup DOMAIN r |-> IF k \in DOMAIN r THEN r[k] ELSE v.m[k]])

\* What the promises of chrome.action.setBadgeText and its companions settle
\* with: the calls reject for the id of a tab that no longer exists.
NoSuchTab == Error("Error", <<"N","o"," ","t","a","b"," ","w","i","t","h"," ","i","d">>)
BadgeCall(tabId, open) ==
  IF Nullish(tabId) THEN Resolved(Undefined)
  ELSE IF tabId.n \in open THEN Resolved(Undefined) ELSE Rejected(NoSuchTab)

SetBadgeText(texts, tabId, text, open) ==
  IF BadgeCall(tabId, open).state = "resolved" THEN MapSet(texts, tabId, text) ELSE texts

\* Promise.all of updateBadge / showIndicator
updateBadge(tabId, open) == BadgeCall(tabId, open)
showIndicator(tabId, open) == BadgeCall(tabId, open)

\* what analyzePolicyWithLLM can settle with: a graded analysis, the sentinel,
\* a rejection
Settlements ==
  {IF AnalyzeReply(r).c = "throw" THEN Rejected(AnalyzeReply(r).v)
   ELSE Resolved(AnalyzeReply(r).v) : r \in {GoodReply, ProseReply, RateLimited}}

\* Lines 67-75
handleLegalLinksFound(cache, tabId, data) ==
  IF ~Truthy(tabId) THEN cache
  ELSE MapSet(cache, tabId, Obj([status |-> DETECTED, domain |-> data.domain,
                                 links |-> data.links, analysis |-> Null]))

\* Lines 90-97
EntryAnalyzing(cache, tabId, data) ==
  Spread(Or(MapGet(cache, tabId), Obj(NoProps)),
         [status |-> ANALYZING, policyType |-> data.policyType, domain |-> data.domain])

\* Lines 103-108
EntryComplete(cache, tabId, analysis) ==
  Spread(MapGet(cache, tabId), [status |-> COMPLETE, analysis |-> analysis])

\* Lines 115-119
EntryError(cache, tabId, error) ==
  Spread(MapGet(cache, tabId), [status |-> ERROR, error |-> error.message])

\* Line 111, and line 141's err => sendResponse({ error: err.message })
SuccessResponse(analysis) == Obj([success |-> Bool(TRUE), analysis |-> analysis])
ErrorResponse(err) == Obj([error |-> err.message])

\* Line 145: analysisCache.get(message.tabId || tabId) || null
GetAnalysis(cache, messageTabId, tabId) == Or(MapGet(cache, Or(messageTabId, tabId)), Null)

InitBackground ==
  /\ analysisCache = <<>>
  /\ openTabs = Tabs
  /\ requests = <<>>
  /\ badge = <<>>
  /\ got = Undefined
  /\ NormIdle /\ ChunkIdle /\ MergeIdle /\ LlmIdle /\ CallIdle /\ PopupIdle

\* A request whose answer has left the worker: nothing of its handler remains.
Gone ==
  [tabId |-> Undefined, page |-> 0, pc |-> "gone", settled |-> PendingPromise,
   awaiting |-> PendingPromise, caught |-> Undefined, response |-> Undefined]

\* The requests as the next event finds them. An answer, to ANALYZE_POLICY or
\* to GET_ANALYSIS, is with its receiver before the worker handles another
\* event, and nothing in the worker reads it.
Handlers == [i \in DOMAIN requests |-> IF requests[i].pc = "answered" THEN Gone ELSE requests[i]]

\* a sender that exists: the popup, or a page or script in an open tab
Sends(tabId) == IF Nullish(tabId) THEN TRUE ELSE tabId.n \in openTabs

\* the page a sender's message is about: its own tab's, or for the popup the
\* active tab's
About(tabId, page) == IF Nullish(tabId) THEN TRUE ELSE tabId.n = page

\* LEGAL_LINKS_FOUND from a sender (lines 134-136, 66-78)
LegalLinksFoundFrom(tabId) ==
  /\ Sends(tabId)
  /\ \E page \in openTabs :
       /\ About(tabId, page)
       /\ analysisCache' = handleLegalLinksFound(analysisCache, tabId,
                             [domain |-> DomainOf(page), links |-> LINKS])
  /\ badge' = IF Truthy(tabId) THEN SetBadgeText(badge, tabId, BANG, openTabs) ELSE badge
  /\ requests' = Handlers
  /\ got' = Undefined
  /\ UNCHANGED openTabs
  /\ UNCHANGED <<normVars, chunkVars, mergeVars, llmVars, callVars, popupVars>>

LegalLinksFound == \E tabId \in SenderTabIds : LegalLinksFoundFrom(tabId)

\* ANALYZE_POLICY from a sender, about the page of a tab (lines 138-142,
\* 86-100): the handler runs up to its await of analyzePolicyWithLLM
AnalyzePolicyFrom(tabId, page) ==
  /\ Len(requests) < MaxRequests
  /\ Sends(tabId)
  /\ page \in openTabs
  /\ About(tabId, page)
  /\ LET data == [policyType |-> POLICY_TYPE, domain |-> DomainOf(page)] IN
       /\ analysisCache' = MapSet(analysisCache, tabId,
                                  EntryAnalyzing(analysisCache, tabId, data))
       /\ requests' = Append(Handlers,
            [tabId |-> tabId, page |-> page, pc |-> "llm", settled |-> PendingPromise,
             awaiting |-> PendingPromise, caught |-> Undefined, response |-> Undefined])
  /\ got' = Undefined
  /\ UNCHANGED <<openTabs, badge>>
  /\ UNCHANGED <<normVars, chunkVars, mergeVars, llmVars, callVars, popupVars>>

AnalyzePolicy == \E tabId \in SenderTabIds : \E page \in Tabs : AnalyzePolicyFrom(tabId, page)

\* The catch block of lines 113-121 up to its await
Caught(i, error, settled) ==
  /\ analysisCache' = MapSet(analysisCache, requests[i].tabId,
                             EntryError(analysisCache, requests[i].tabId, error))
  /\ badge' = SetBadgeText(badge, requests[i].tabId, BANG, openTabs)
  /\ requests' = [Handlers EXCEPT ![i].pc = "indicator", ![i].settled = settled,
                                  ![i].caught = error,
                                  ![i].awaiting = showIndicator(requests[i].tabId, openTabs)]

\* analyzePolicyWithLLM settles (lines 100-110, 113-120)
AnalysisSettlesFor(i) ==
  /\ requests[i].pc = "llm"
  /\ \E settled \in Settlements :
       IF settled.state = "resolved"
       THEN /\ analysisCache' = MapSet(analysisCache, requests[i].tabId,
                                       EntryComplete(analysisCache, requests[i].tabId, settled.v))
            /\ badge' = SetBadgeText(badge, requests[i].tabId,
                                     Get(settled.v, "grade"), openTabs)
            /\ requests' = [Handlers EXCEPT ![i].pc = "badge", ![i].settled = settled,
                                            ![i].awaiting = updateBadge(requests[i].tabId, openTabs)]
       ELSE Caught(i, settled.v, settled)
  /\ got' = Undefined
  /\ UNCHANGED openTabs
  /\ UNCHANGED <<normVars, chunkVars, mergeVars, llmVars, callVars, popupVars>>

AnalysisSettles == \E i \in DOMAIN requests : AnalysisSettlesFor(i)

\* await updateBadge(...) settles (lines 110-111, or 113-120 when it rejected)
BadgeSettles ==
  /\ \E i \in DOMAIN requests :
       /\ requests[i].pc = "badge"
       /\ IF requests[i].awaiting.state = "resolved"
          THEN /\ requests' = [Handlers EXCEPT ![i].pc = "answered",
                                 ![i].response = SuccessResponse(requests[i].settled.v)]
               /\ UNCHANGED <<analysisCache, badge>>
          ELSE Caught(i, requests[i].awaiting.v, requests[i].settled)
  /\ got' = Undefined
  /\ UNCHANGED openTabs
  /\ UNCHANGED <<normVars, chunkVars, mergeVars, llmVars, callVars, popupVars>>

\* await showIndicator(...) settles (lines 121-122): the handler rejects with
\* the caught error, or with showIndicator's own, and line 141 answers
IndicatorSettles ==
  /\ \E i \in DOMAIN requests :
       /\ requests[i].pc = "indicator"
       /\ requests' = [Handlers EXCEPT ![i].pc = "answered",
            ![i].response = IF requests[i].awaiting.state = "resolved"
                            THEN ErrorResponse(requests[i].caught)
                            ELSE ErrorResponse(requests[i].awaiting.v)]
  /\ got' = Undefined
  /\ UNCHANGED <<analysisCache, openTabs, badge>>
  /\ UNCHANGED <<normVars, chunkVars, mergeVars, llmVars, callVars, popupVars>>

\* GET_ANALYSIS (lines 144-146)
GetAnalysisFrom(tabId, messageTabId) ==
  /\ Sends(tabId)
  /\ got' = [key |-> Or(messageTabId, tabId),
             response |-> GetAnalysis(analysisCache, messageTabId, tabId)]
  /\ requests' = Handlers
  /\ UNCHANGED <<analysisCache, openTabs, badge>>
  /\ UNCHANGED <<normVars, chunkVars, mergeVars, llmVars, callVars, popupVars>>

GetAnalysisAsked ==
  \E tabId \in SenderTabIds : \E messageTabId \in SenderTabIds :
    GetAnalysisFrom(tabId, messageTabId)

\* CLEAR_CACHE (lines 148-152)
ClearCacheFrom(tabId) ==
  /\ Sends(tabId)
  /\ analysisCache' = MapDelete(analysisCache, tabId)
  /\ badge' = SetBadgeText(badge, tabId, Str(<<>>), openTabs)
  /\ requests' = Handlers
  /\ got' = Undefined
  /\ UNCHANGED openTabs
  /\ UNCHANGED <<normVars, chunkVars, mergeVars, llmVars, callVars, popupVars>>

ClearCache == \E tabId \in SenderTabIds : ClearCacheFrom(tabId)

\* chrome.tabs.onRemoved (lines 165-167); the tab's badge goes with the tab
TabRemovedFor(tab) ==
  /\ tab \in openTabs
  /\ openTabs' = openTabs \ {tab}
  /\ analysisCache' = MapDelete(analysisCache, Num(tab))
  /\ badge' = MapDelete(badge, Num(tab))
  /\ requests' = Handlers
  /\ got' = Undefined
  /\ UNCHANGED <<normVars, chunkVars, mergeVars, llmVars, callVars, popupVars>>

TabRemoved == \E tab \in Tabs : TabRemovedFor(tab)

NextBackground ==
  \/ LegalLinksFound \/ AnalyzePolicy \/ AnalysisSettles \/ BadgeSettles
  \/ IndicatorSettles \/ GetAnalysisAsked \/ ClearCache \/ TabRemoved

SpecBackground == InitBackground /\ [][NextBackground]_vars

-----------------------------------------------------------------------------
(* The popup: one run of startAnalysis *)

MIN_POLICY_LENGTH == 100

COULD_NOT_EXTRACT ==
  <<"C","o","u","l","d"," ","n","o","t"," ","e","x","t","r","a","c","t"," ",
    "p","o","l","i","c","y"," ","t","e","x","t","."," ","M","a","k","e"," ",
    "s","u","r","e"," ","y","o","u","'","r","e"," ","o","n"," ","a"," ","T",
    "e","r","m","s"," ","o","f"," ","S","e","r","v","i","c","e"," ","o","r",
    " ","P","r","i","v","a","c","y"," ","P","o","l","i","c","y"," ","p","a",
    "g","e",".">>

PLEASE_REFRESH ==
  <<"P","l","e","a","s","e"," ","r","e","f","r","e","s","h"," ","t","h","i",
    "s"," ","p","a","g","e"," ","f","i","r","s","t",","," ","t","h","e","n",
    " ","t","r","y"," ","s","c","a","n","n","i","n","g"," ","a","g","a","i",
    "n",".">>

\* the rejection of tabs.sendMessage when no content script listens in the
\* tab; its message is the browser's
NoReceiver == Error("Error", <<"N","o"," ","r","e","c","e","i","v","e","r">>)

\* a page text of n characters
PageText(n) == [t |-> "text", len |-> n]

\* Boolean(settings?.endpoint && settings?.model && settings?.apiKey)
isConfigured(settings) ==
  /\ Truthy(OptGet(settings, "endpoint"))
  /\ Truthy(OptGet(settings, "model"))
  /\ Truthy(OptGet(settings, "apiKey"))

\* !response?.text || response.text.length < 100
MissingOrShort(response) ==
  IF OptGet(response, "text").t # "text" THEN TRUE
  ELSE OptGet(response, "text").len < MIN_POLICY_LENGTH

\* The try block of getPageContent once tabs.sendMessage has settled
ExtractPolicy(settled) ==
  IF settled.state = "rejected" THEN Throw(settled.v)
  ELSE IF MissingOrShort(settled.v) THEN Throw(Error("Error", COULD_NOT_EXTRACT))
  ELSE Return(settled.v)

\* getPageContent: the catch without a binding replaces whatever was thrown
getPageContent(settled) ==
  IF ExtractPolicy(settled).c = "throw" THEN Throw(Error("Error", PLEASE_REFRESH))
  ELSE ExtractPolicy(settled)

\* the message of requestAnalysis
requestAnalysis(pageResponse, tabId) ==
  [type |-> "ANALYZE_POLICY",
   data |-> [policyText |-> Get(pageResponse, "text"), policyType |-> POLICY_TYPE,
             domain |-> DomainOf(tabId.n)]]

\* what tabs.sendMessage(currentTabId, EXTRACT_POLICY) can settle with
PageSettlements ==
  {Rejected(NoReceiver), Resolved(Undefined), Resolved(Obj(NoProps))}
  \cup {Resolved(Obj([text |-> PageText(n)])) :
          n \in {0, MIN_POLICY_LENGTH - 1, MIN_POLICY_LENGTH, MAX_TEXT_LENGTH + 1}}

\* what the background answers to ANALYZE_POLICY
AnalysisResponses ==
  {IF settled.state = "resolved" THEN SuccessResponse(settled.v)
   ELSE ErrorResponse(settled.v) : settled \in Settlements}
  \cup {ErrorResponse(NoSuchTab)}

ActiveTabs == {1, 2}

InitPopup ==
  /\ uPc = "start"
  /\ uStore \in Stores
  /\ currentTabId \in {Num(tab) : tab \in ActiveTabs}
  /\ uLoading = FALSE
  /\ uPage = PendingPromise
  /\ uSent = <<>>
  /\ uError = Undefined
  /\ uShown = Undefined
  /\ NormIdle /\ ChunkIdle /\ MergeIdle /\ LlmIdle /\ CallIdle /\ BgIdle

\* startAnalysis up to its await of getPageContent
StartAnalysis ==
  /\ uPc = "start"
  /\ IF ~isConfigured(Get(uStore, "settings"))
     THEN uPc' = "settings" /\ UNCHANGED uLoading
     ELSE uPc' = "extract" /\ uLoading' = TRUE
  /\ UNCHANGED <<uStore, currentTabId, uPage, uSent, uError, uShown>>
  /\ UNCHANGED <<normVars, chunkVars, mergeVars, llmVars, callVars, bgVars>>

\* The content script's answer arrives or the messaging fails: getPageContent
\* completes, and startAnalysis sends the request or reports the error and
\* clears the loading state.
PageSettles ==
  /\ uPc = "extract"
  /\ \E settled \in PageSettlements :
       /\ uPage' = settled
       /\ IF getPageContent(settled).c = "throw"
          THEN /\ uError' = getPageContent(settled).v.message
               /\ uLoading' = FALSE
               /\ uPc' = "done"
               /\ UNCHANGED uSent
          ELSE /\ uSent' = Append(uSent, requestAnalysis(getPageContent(settled).v, currentTabId))
               /\ uPc' = "analyze"
               /\ UNCHANGED <<uError, uLoading>>
  /\ UNCHANGED <<uStore, currentTabId, uShown>>
  /\ UNCHANGED <<normVars, chunkVars, mergeVars, llmVars, callVars, bgVars>>

\* The background's answer arrives
AnalysisAnswered ==
  /\ uPc = "analyze"
  /\ \E response \in AnalysisResponses :
       IF Truthy(Get(response, "error"))
       THEN uError' = StringOf(Get(response, "error")) /\ UNCHANGED uShown
       ELSE uShown' = Get(response, "analysis") /\ UNCHANGED uError
  /\ uLoading' = FALSE
  /\ uPc' = "done"
  /\ UNCHANGED <<uStore, currentTabId, uPage, uSent>>
  /\ UNCHANGED <<normVars, chunkVars, mergeVars, llmVars, callVars, bgVars>>

NextPopup == StartAnalysis \/ PageSettles \/ AnalysisAnswered

SpecPopup == InitPopup /\ [][NextPopup]_vars

-----------------------------------------------------------------------------
(* Claims *)

GradeLetters == {Ch("A"), Ch("B"), Ch("C"), Ch("D"), Ch("F")}
SixGrades == GradeLetters \cup {Ch("?")}

CeilDiv(a, b) == (a + b - 1) \div b

\* The stored settings lack an endpoint, a model or an API key (absent or
\* empty), the settings record itself being possibly absent.
SettingsIncomplete ==
  LET record == IF "settings" \in DOMAIN store.m THEN store.m.settings ELSE Null IN
  \/ record.t # "object"
  \/ \E f \in {"endpoint", "model", "apiKey"} :
       f \notin DOMAIN record.m \/ record.m[f] = Str(<<>>)

\* C1: parseAnalysisResponse never throws: every call returns, and a call in
\* which extraction or validation raises returns exactly the sentinel; so do
\* the strings "", "not json at all" and "```not{closed" and the value null.
C1_NormalizeNeverThrows ==
  /\ nPc # "threw"
  /\ nPc = "returned" =>
       /\ nResult.c = "return"
       /\ ( \/ (TypeOf(nResponse) = "string" /\ extractJSON(nResponse).c = "throw")
            \/ (TypeOf(nResponse) = "string" /\ extractJSON(nResponse).c = "return"
                /\ NormalizeGrade(extractJSON(nResponse).v).c = "throw")
            \/ (TypeOf(nResponse) # "string" /\ NormalizeGrade(nResponse).c = "throw") )
          => nResult.v = Sentinel
       /\ nResponse \in {EmptyText, NotJsonAtAll, UnclosedFence, Null}
          => nResult.v = Sentinel

\* C1 witness: the unclosed fenced block has been normalized to the sentinel
C1_Witness ==
  nPc = "returned" /\ nResponse = UnclosedFence /\ nResult = Return(Sentinel)

\* C2 (as claimed): with complete settings, once every HTTP call has settled
\* with a success status and a readable body, the analysis never ends
\* rejected, whatever the replies hold.
C2_RepliesNeverReject ==
  ( /\ ~SettingsIncomplete
    /\ pc \in {"single", "chunked", "merged"}
    /\ inflight = {}
    /\ \A n \in DOMAIN fetched :
         fetched[n].kind = "response" /\ Ok(fetched[n]) /\ callLLM(fetched[n]).c = "return" )
  => outcome.state # "rejected"

\* C3: with incomplete settings the call rejects with the configuration
\* error and issues no HTTP call, whatever the length of the document.
C3_ConfigErrorBeforeAnyCall ==
  (SettingsIncomplete /\ pc # "call") =>
    /\ pc = "rejected"
    /\ outcome = Rejected(Error("Error", CONFIG_MESSAGE))
    /\ calls = <<>>
    /\ inflight = {}
    /\ merges = <<>>

\* C3 witness: a long document, no settings record, rejected without a call
C3_Witness ==
  /\ pc = "rejected" /\ store = Obj(NoProps) /\ policyText.len > MAX_TEXT_LENGTH
  /\ calls = <<>> /\ outcome.state = "rejected"

\* C4: in a chunked analysis all N calls are issued before any reply is
\* processed; the merge runs only after all N calls returned; if a chunk call
\* fails the analysis rejects with the error of a failed call and nothing is
\* merged; calls still in flight after the rejection can still settle.
C4_FanOutFanIn ==
  pc \in {"chunked", "merged"} =>
    /\ Len(calls) = CeilDiv(policyText.len, MAX_TEXT_LENGTH - CHUNK_RESERVE)
    /\ DOMAIN fetched = DOMAIN calls /\ DOMAIN chunkResults = DOMAIN calls
    /\ inflight = {n \in DOMAIN calls : fetched[n] = Unsettled}
    /\ merges # <<>> =>
         /\ inflight = {}
         /\ \A n \in DOMAIN calls : callLLM(fetched[n]).c = "return"
    /\ (\E n \in DOMAIN calls : fetched[n] # Unsettled /\ callLLM(fetched[n]).c = "throw") =>
         /\ outcome.state = "rejected"
         /\ outcome.v \in {callLLM(fetched[n]).v :
                             n \in {m \in DOMAIN calls : fetched[m] # Unsettled
                                                         /\ callLLM(fetched[m]).c = "throw"}}
         /\ merges = <<>>
    /\ outcome.state = "resolved" => merges # <<>>
    /\ (pc = "chunked" /\ inflight # {}) => ENABLED ChunkSettles

\* C4 witness: a call failed, the analysis is rejected, and another call of
\* the same analysis returned its reply afterwards or before
C4_Witness ==
  /\ pc = "chunked" /\ Len(calls) = 3 /\ inflight = {}
  /\ outcome.state = "rejected"
  /\ chunkResults[1].c = "throw" /\ chunkResults[3].c = "return"

\* C5: with valid settings the number of HTTP calls is fixed by the length:
\* one unlabelled call with the whole text and no merge up to 50000
\* characters, the result being the normalized reply; ceil(length/45000) >= 2
\* calls labelled Part i of N above; the merger only gets more than one
\* result; the calls issued never change afterwards (no retry).
C5_CallCount ==
  (~SettingsIncomplete /\ pc # "call") =>
    /\ policyText.len <= 50000 =>
         /\ calls = <<[text |-> [from |-> 0, to |-> policyText.len], part |-> 0, of |-> 0]>>
         /\ merges = <<>>
         /\ outcome.state = "resolved" =>
              outcome.v = parseAnalysisResponse(callLLM(fetched[1]).v).v
    /\ policyText.len > 50000 =>
         /\ Len(calls) = CeilDiv(policyText.len, 45000)
         /\ Len(calls) >= 2
         /\ \A n \in DOMAIN calls : calls[n].part = n /\ calls[n].of = Len(calls)
         /\ \A n \in DOMAIN calls : calls[n].text.to - calls[n].text.from <= 45000
    /\ \A k \in DOMAIN merges : Len(merges[k]) > 1
    /\ Len(merges) <= 1

\* C5 witness: 90001 characters were analysed with three calls and merged
C5_Witness ==
  /\ pc = "merged" /\ policyText.len = 90001 /\ Len(calls) = 3
  /\ Len(merges) = 1 /\ Len(merges[1]) = 3

\* The span covered by consecutive slices, or the empty record when two
\* neighbours are not adjacent
RECURSIVE Concatenation(_)
Concatenation(slices) ==
  IF Len(slices) = 1 THEN slices[1]
  ELSE LET rest == Concatenation(Tail(slices)) IN
       IF rest # [from |-> -1, to |-> -1] /\ slices[1].to = rest.from
       THEN [from |-> slices[1].from, to |-> rest.to]
       ELSE [from |-> -1, to |-> -1]

\* C6: the chunks of a text longer than the threshold are contiguous,
\* non-overlapping, in order, non-empty, at most 45000 long, all but the last
\* exactly 45000 long; their concatenation is the text and their count is
\* ceil(length/45000); 120000 characters give 45000 / 45000 / 30000.
C6_ChunkRoundTrip ==
  cPc = "done" =>
    /\ Len(cChunks) = CeilDiv(cText.len, 45000)
    /\ Concatenation(cChunks) = [from |-> 0, to |-> cText.len]
    /\ \A k \in DOMAIN cChunks :
         /\ cChunks[k].to - cChunks[k].from > 0
         /\ cChunks[k].to - cChunks[k].from <= 45000
         /\ k < Len(cChunks) => cChunks[k].to - cChunks[k].from = 45000
         /\ k < Len(cChunks) => cChunks[k].to = cChunks[k + 1].from
    /\ cText.len = 120000 =>
         [k \in DOMAIN cChunks |-> cChunks[k].to - cChunks[k].from] = <<45000, 45000, 30000>>

\* C6 witness: the loop has finished on a text of 120000 characters
C6_Witness == cPc = "done" /\ cText.len = 120000 /\ Len(cChunks) = 3

\* The index of a grade in A < B < C < D < F, -1 for any other value
GradeRank(g) ==
  CASE g = Ch("A") -> 0 [] g = Ch("B") -> 1 [] g = Ch("C") -> 2
    [] g = Ch("D") -> 3 [] g = Ch("F") -> 4 [] OTHER -> -1

\* C7: the merged grade is the worst of the chunk grades in A < B < C < D < F,
\* a grade outside the list counting for nothing and 'A' being the grade when
\* no chunk has a listed grade; it is always one of A, B, C, D, F.
C7_WorstGrade ==
  mPc = "returned" =>
    LET ranks == {GradeRank(mResults[i].m.grade) : i \in DOMAIN mResults} \cup {0}
        top == CHOOSE x \in ranks : \A y \in ranks : y <= x
    IN /\ GradeRank(mMerged.v.m.grade) = top
       /\ mMerged.v.m.grade \in GradeLetters

\* C7 witness: every chunk is graded '?' and the merged grade is 'A'
C7_Witness ==
  /\ mPc = "returned"
  /\ \A i \in DOMAIN mResults : mResults[i].m.grade = Ch("?")
  /\ mMerged.v.m.grade = Ch("A")

StatusRank(f) ==
  CASE f.m.status = SAFE -> 0 [] f.m.status = UNKNOWN -> 1
    [] f.m.status = WARNING -> 2 [] f.m.status = DANGER -> 3 [] OTHER -> -1

\* The chunks that report category key with a finding object
Reporting(key) ==
  {i \in DOMAIN mResults :
     /\ key \in DOMAIN mResults[i].m.dirtyDozen.m
     /\ mResults[i].m.dirtyDozen.m[key].t = "object"}

\* C9: for each category reported by finding objects only, the merged
\* dirtyDozen keeps the finding of the earliest chunk among those whose status
\* is the most severe in safe < unknown < warning < danger.
C9_WorstFindingFirstSeen ==
  mPc = "returned" =>
    \A key \in {"data_sale", "ai_training"} :
      (Reporting(key) # {} /\
       \A i \in DOMAIN mResults :
         key \in DOMAIN mResults[i].m.dirtyDozen.m => i \in Reporting(key))
      => LET finding(i) == mResults[i].m.dirtyDozen.m[key]
             best == CHOOSE i \in Reporting(key) :
                       /\ \A j \in Reporting(key) : StatusRank(finding(j)) <= StatusRank(finding(i))
                       /\ \A j \in Reporting(key) :
                            StatusRank(finding(j)) = StatusRank(finding(i)) => i <= j
         IN /\ key \in DOMAIN mMerged.v.m.dirtyDozen.m
            /\ mMerged.v.m.dirtyDozen.m[key] = finding(best)

\* C9 witness: two chunks report data_sale as safe with different findings
\* and the first one is kept
C9_Witness ==
  /\ mPc = "returned" /\ Len(mResults) = 2
  /\ mResults[1].m.dirtyDozen = Obj([data_sale |-> Finding(SAFE, OK)])
  /\ mResults[2].m.dirtyDozen = Obj([data_sale |-> Finding(SAFE, FINE)])
  /\ mMerged.v.m.dirtyDozen = Obj([data_sale |-> Finding(SAFE, OK)])

\* C10: the grade of every normalized chunk result, and of the merged result,
\* is one of A, B, C, D, F, ?.
C10_GradeAlphabet ==
  /\ \A i \in DOMAIN mResults : mResults[i].m.grade \in SixGrades
  /\ mPc = "returned" => mMerged.v.m.grade \in SixGrades

\* C10 witness: a reply graded 'b' and a reply graded 'e' were normalized
\* to 'B' and 'C' and merged
C10_Witness ==
  /\ mPc = "returned" /\ Len(mResults) = 2
  /\ mReplies[1] = JsonText(MkObj([grade |-> Ch("b")])) /\ mResults[1].m.grade = Ch("B")
  /\ mReplies[2] = JsonText(MkObj([grade |-> Ch("e")])) /\ mResults[2].m.grade = Ch("C")
  /\ mMerged.v.m.grade = Ch("C")

\* What the call of parseAnalysisResponse takes for parsed (line 449)
ParsedReply ==
  IF TypeOf(nResponse) = "string" THEN extractJSON(nResponse) ELSE Return(nResponse)

\* C11 (as claimed): when the reply was parsed as an object, the normalized
\* grade is 'C' if the reply's grade is absent or is not one of A, B, C, D, F
\* in either case, whatever its type, and is the upper-cased grade otherwise;
\* it is never '?'.
C11_GradeForcedOrUpperCased ==
  (nPc = "returned" /\ ParsedReply.c = "return" /\ ParsedReply.v.t = "object") =>
    LET g == Get(ParsedReply.v, "grade") IN
    /\ nResult.v.m.grade =
         IF g.t = "string" /\ toUpperCase(g) \in GradeLetters THEN toUpperCase(g) ELSE Ch("C")
    /\ nResult.v.m.grade # Ch("?")

\* C12 (as claimed): every value of the dirtyDozen of a normalized result has
\* a status in {safe, warning, danger, unknown}.
C12_StatusesAreValid ==
  nPc = "returned" =>
    LET dd == nResult.v.m.dirtyDozen IN
    dd.t = "object" =>
      \A k \in DOMAIN dd.m :
        /\ dd.m[k].t = "object"
        /\ "status" \in DOMAIN dd.m[k].m
        /\ dd.m[k].m.status \in {SAFE, WARNING, DANGER, UNKNOWN}

\* C13 (as claimed): the dirtyDozen of a normalized result is a key-value map,
\* never null, an array, a string or absent.
C13_DirtyDozenIsMap ==
  nPc = "returned" =>
    /\ "dirtyDozen" \in DOMAIN nResult.v.m
    /\ nResult.v.m.dirtyDozen.t = "object"

\* The list the reply carries under highlights.good / highlights.bad
ReplyHighlight(k) ==
  IF ParsedReply.v.t = "object" /\ Get(ParsedReply.v, "highlights").t = "object"
  THEN Get(Get(ParsedReply.v, "highlights"), k)
  ELSE Undefined

KeptIfArray(v) == IF v.t = "array" THEN v ELSE Arr(<<>>)

\* C14: after normalization highlights.good, highlights.bad and
\* criticalQuotes are arrays; each is the reply's value when that value is an
\* array and [] otherwise, independently of the other two (all three are []
\* when the reply could not be parsed).
C14_ListFieldsAlwaysArrays ==
  nPc = "returned" =>
    /\ nResult.v.m.highlights.t = "object"
    /\ nResult.v.m.highlights.m.good.t = "array"
    /\ nResult.v.m.highlights.m.bad.t = "array"
    /\ nResult.v.m.criticalQuotes.t = "array"
    /\ IF TryParse(nResponse).c = "throw"
       THEN /\ nResult.v.m.highlights.m.good = Arr(<<>>)
            /\ nResult.v.m.highlights.m.bad = Arr(<<>>)
            /\ nResult.v.m.criticalQuotes = Arr(<<>>)
       ELSE /\ nResult.v.m.highlights.m.good = KeptIfArray(ReplyHighlight("good"))
            /\ nResult.v.m.highlights.m.bad = KeptIfArray(ReplyHighlight("bad"))
            /\ nResult.v.m.criticalQuotes = KeptIfArray(Get(ParsedReply.v, "criticalQuotes"))

\* C14 witness: a reply whose highlights.good is a string and whose
\* highlights.bad is a list was normalized to good [] and bad as given
C14_Witness ==
  /\ nPc = "returned"
  /\ nResponse = JsonText(MkObj([BaseFields EXCEPT !.highlights =
                    Obj([good |-> Str(<<"x">>), bad |-> Arr(<<Ch("c")>>)])]))
  /\ nResult.v.m.highlights = Obj([good |-> Arr(<<>>), bad |-> Arr(<<Ch("c")>>)])

\* C15 (as claimed): for a reply that was parsed, the normalized summary is
\* the reply's summary when that is longer than 10 characters and the fixed
\* text otherwise; it is always a non-empty string.
C15_SummaryKeptOrReplaced ==
  nPc = "returned" =>
    /\ TryParse(nResponse).c = "return" =>
         LET summary == Get(ParsedReply.v, "summary") IN
         nResult.v.m.summary =
           IF summary.t = "string" /\ Len(Units(summary)) > 10
           THEN summary ELSE Str(FALLBACK_SUMMARY)
    /\ nResult.v.m.summary.t = "string"
    /\ Units(nResult.v.m.summary) # <<>>

\* C16 (as claimed): normalizing the result of a normalization gives that
\* result again, field by field, whatever the first input was.
C16_NormalizeIdempotent ==
  nPc = "renormalized" => nResult.v = nResponse

\* C16 (amended): normalizing the result of a normalization gives that result
\* again unless it is the sentinel, whose grade '?' the second pass replaces
\* by 'C', the other fields staying as they are.
C16_IdempotentExceptSentinel ==
  nPc = "renormalized" =>
    IF nResponse = Sentinel
    THEN nResult.v = Obj([Sentinel.m EXCEPT !.grade = Ch("C")])
    ELSE nResult.v = nResponse

\* C16 witness: a result graded 'B' with findings, highlights and a quote
\* was normalized again and came back unchanged
C16_Witness ==
  /\ nPc = "renormalized"
  /\ nResponse = AnalysisResult(Ch("B"), SUMMARY_11,
                   Obj([data_sale |-> Finding(SAFE, OK)]),
                   Arr(<<Ch("a"), Ch("b")>>), Arr(<<Ch("c")>>), Arr(<<Quote>>))
  /\ nResult.v = nResponse

\* The lists of all chunks one after the other, in chunk order
RECURSIVE Joined(_)
Joined(lists) == IF lists = <<>> THEN <<>> ELSE Head(lists) \o Joined(Tail(lists))

\* A list without the entries that repeat an earlier one
RECURSIVE FirstOccurrences(_)
FirstOccurrences(list) ==
  IF list = <<>> THEN <<>>
  ELSE LET front == FirstOccurrences(SubSeq(list, 1, Len(list) - 1))
           last == list[Len(list)]
       IN IF \E i \in 1..Len(front) : front[i] = last THEN front ELSE Append(front, last)

\* The first n entries of a list, all of them if there are fewer
Prefix(list, n) == SubSeq(list, 1, IF Len(list) < n THEN Len(list) ELSE n)

\* C17: the merged highlights.good is the chunks' good highlights (strings) in
\* chunk order, without the repetitions of an earlier entry, cut to the first
\* 5; highlights.bad likewise, cut to the first 10.
C17_HighlightsMerged ==
  mPc = "returned" =>
    /\ mMerged.v.m.highlights.m.good.a =
         Prefix(FirstOccurrences(Joined([i \in DOMAIN mResults |->
                  mResults[i].m.highlights.m.good.a])), 5)
    /\ mMerged.v.m.highlights.m.bad.a =
         Prefix(FirstOccurrences(Joined([i \in DOMAIN mResults |->
                  mResults[i].m.highlights.m.bad.a])), 10)

\* C17 witness: good highlights a,b and b,c of two chunks merged to a,b,c
C17_Witness ==
  /\ mPc = "returned" /\ Len(mResults) = 2
  /\ mResults[1].m.highlights.m.good = Arr(<<Ch("a"), Ch("b")>>)
  /\ mResults[2].m.highlights.m.good = Arr(<<Ch("b"), Ch("c")>>)
  /\ mMerged.v.m.highlights.m.good = Arr(<<Ch("a"), Ch("b"), Ch("c")>>)

\* C18: the merged criticalQuotes is the chunks' quote lists one after the
\* other in chunk order, repetitions included, cut to the first 5.
C18_QuotesConcatenated ==
  mPc = "returned" =>
    mMerged.v.m.criticalQuotes.a =
      Prefix(Joined([i \in DOMAIN mResults |-> mResults[i].m.criticalQuotes.a]), 5)

\* C18 witness: three chunks bring 1, 2 and 3 quotes, the first two sharing a
\* quote; the merge keeps the repeated quote twice and drops the sixth
C18_Witness ==
  /\ mPc = "returned" /\ Len(mResults) = 3
  /\ mResults[1].m.criticalQuotes = Arr(<<QuoteAbout(OK)>>)
  /\ mResults[2].m.criticalQuotes = Arr(<<QuoteAbout(OK), QuoteAbout(FINE)>>)
  /\ Len(mResults[3].m.criticalQuotes.a) = 3
  /\ mMerged.v.m.criticalQuotes =
       Arr(<<QuoteAbout(OK), QuoteAbout(OK), QuoteAbout(FINE),
             QuoteAbout(SELLS_DATA), QuoteAbout(BOGUS)>>)

\* C19: the merged summary is the summary of the first chunk's result,
\* whatever the later chunks hold, and 'Analysis complete.' only when the first
\* result has none.
C19_SummaryOfFirstChunk ==
  mPc = "returned" =>
    /\ Truthy(Get(mResults[1], "summary")) =>
         mMerged.v.m.summary = mResults[1].m.summary
    /\ mMerged.v.m.summary = Str(MERGE_FALLBACK_SUMMARY) =>
         ~Truthy(Get(mResults[1], "summary"))
    /\ mResults[1] = Sentinel => mMerged.v.m.summary = Str(SENTINEL_SUMMARY)

\* C19 witness: the first chunk degraded to the sentinel, the second has a
\* summary of its own, and the merged summary is the sentinel's
C19_Witness ==
  /\ mPc = "returned"
  /\ mResults[1] = Sentinel
  /\ mResults[2].m.summary = SUMMARY_12
  /\ mMerged.v.m.summary = Str(SENTINEL_SUMMARY)

\* The message an error body carries: error.message, else message, of a body
\* that is a JSON object; none for any other body
EmbeddedMessage(json) ==
  IF json.c = "return" /\ json.v.t = "object"
  THEN LET inner == IF "error" \in DOMAIN json.v.m /\ json.v.m.error.t = "object"
                       /\ "message" \in DOMAIN json.v.m.error.m
                    THEN json.v.m.error.m.message ELSE Str(<<>>)
           outer == IF "message" \in DOMAIN json.v.m THEN json.v.m.message ELSE Str(<<>>)
       IN IF inner # Str(<<>>) THEN inner ELSE outer
  ELSE Str(<<>>)

\* C20 (as claimed): on every status outside 200..299 callLLM throws an Error
\* whose message is the message embedded in the body, else the table entry of
\* the status, else 'Request failed (<status>)', whatever the body is; a 429
\* with a body that is not JSON gives the rate limit message.
C20_ErrorMessageByPriority ==
  (kPc \in {"returned", "threw"} /\ kSettled.kind = "response"
   /\ kSettled.status \notin 200..299) =>
    /\ kResult.c = "throw"
    /\ kResult.v.name = "Error"
    /\ kResult.v.message =
         IF EmbeddedMessage(kSettled.json) # Str(<<>>) THEN EmbeddedMessage(kSettled.json)
         ELSE IF kSettled.status \in {400, 401, 403, 404, 429, 500, 502, 503}
              THEN HTTP_ERROR_MESSAGES(kSettled.status)
              ELSE Str(REQUEST_FAILED \o Digits(kSettled.status) \o <<")">>)
    /\ (kSettled.status = 429 /\ kSettled.json.c = "throw") => kResult.v.message = Str(MSG_429)

\* The text a reply body carries at choices[0].message.content, or failing
\* that at candidates[0].content.parts[0].text; '' for any other body
ChoicesText(json) ==
  IF /\ json.c = "return" /\ json.v.t = "object" /\ "choices" \in DOMAIN json.v.m
     /\ json.v.m.choices.t = "array" /\ json.v.m.choices.a # <<>>
     /\ json.v.m.choices.a[1].t = "object" /\ "message" \in DOMAIN json.v.m.choices.a[1].m
     /\ json.v.m.choices.a[1].m.message.t = "object"
     /\ "content" \in DOMAIN json.v.m.choices.a[1].m.message.m
  THEN json.v.m.choices.a[1].m.message.m.content
  ELSE Str(<<>>)

CandidatesText(json) ==
  IF /\ json.c = "return" /\ json.v.t = "object" /\ "candidates" \in DOMAIN json.v.m
     /\ json.v.m.candidates.t = "array" /\ json.v.m.candidates.a # <<>>
     /\ json.v.m.candidates.a[1].t = "object" /\ "content" \in DOMAIN json.v.m.candidates.a[1].m
     /\ json.v.m.candidates.a[1].m.content.t = "object"
     /\ "parts" \in DOMAIN json.v.m.candidates.a[1].m.content.m
     /\ json.v.m.candidates.a[1].m.content.m.parts.t = "array"
     /\ json.v.m.candidates.a[1].m.content.m.parts.a # <<>>
     /\ json.v.m.candidates.a[1].m.content.m.parts.a[1].t = "object"
     /\ "text" \in DOMAIN json.v.m.candidates.a[1].m.content.m.parts.a[1].m
  THEN json.v.m.candidates.a[1].m.content.m.parts.a[1].m.text
  ELSE Str(<<>>)

IsEmptyString(v) == v.t = "string" /\ Units(v) = <<>>

\* C21 (as claimed): on every status in 200..299 callLLM returns the first
\* non-empty of the two reply texts and '' when the body has neither shape,
\* whatever the body is; '' is normalized to the sentinel.
C21_ReplyTextOrEmpty ==
  /\ (kPc \in {"returned", "threw"} /\ kSettled.kind = "response"
      /\ kSettled.status \in 200..299) =>
       /\ kResult.c = "return"
       /\ IF ~IsEmptyString(ChoicesText(kSettled.json))
          THEN kResult.v = ChoicesText(kSettled.json)
          ELSE IF ~IsEmptyString(CandidatesText(kSettled.json))
               THEN kResult.v = CandidatesText(kSettled.json)
               ELSE IsEmptyString(kResult.v)
       /\ IsEmptyString(kResult.v) => parseAnalysisResponse(kResult.v) = Return(Sentinel)

\* The chunk results as the per-chunk replies determine them, in chunk order
ResultsOfReplies == [n \in DOMAIN fetched |-> AnalyzeReply(fetched[n]).v]

\* C22: when every call of a chunked analysis has succeeded, the results are
\* merged in the order of the chunks, so the outcome is determined by the
\* per-chunk replies alone, whatever the order in which they arrived.
C22_MergedInChunkOrder ==
  pc = "merged" =>
    /\ merges = <<ResultsOfReplies>>
    /\ outcome = IF mergeChunkResults(ResultsOfReplies).c = "throw"
                 THEN Rejected(mergeChunkResults(ResultsOfReplies).v)
                 ELSE Resolved(mergeChunkResults(ResultsOfReplies).v)

\* the last chunk's reply arrived first, the chunks' results differ, and the
\* merged summary is the first chunk's
C22_Witness ==
  /\ pc = "merged"
  /\ Len(arrived) >= 2
  /\ arrived[1] = Len(arrived)
  /\ arrived[Len(arrived)] = 1
  /\ fetched[1] = GoodReply
  /\ fetched[Len(fetched)] = ProseReply
  /\ outcome.state = "resolved"
  /\ outcome.v.m.summary = ResultsOfReplies[1].m.summary
  /\ ResultsOfReplies[1] # ResultsOfReplies[Len(fetched)]

\* C23 (as claimed): parseAnalysisResponse leaves its argument unchanged: a
\* structured reply has the same fields after the call as before it.
C23_ArgumentUnchanged ==
  nPc \in {"returned", "renormalized", "threw"} => nAfter = nResponse

\* C24 (as claimed): an ANALYZE_POLICY message is answered with
\* {success: true, analysis} when analyzePolicyWithLLM resolved and with
\* {error: message} carrying the rejection's message when it rejected.
C24_AnsweredByOutcome ==
  \A i \in DOMAIN requests :
    requests[i].pc = "answered" =>
      /\ requests[i].settled.state = "resolved" =>
           requests[i].response = SuccessResponse(requests[i].settled.v)
      /\ requests[i].settled.state = "rejected" =>
           requests[i].response = ErrorResponse(requests[i].settled.v)

\* What a GET_ANALYSIS from the popup with tabId: tab is answered now
PopupGets(tab) == GetAnalysis(analysisCache, Num(tab), Undefined)

\* C25 (as claimed): when the popup's ANALYZE_POLICY about the page of the
\* active tab has been answered with an analysis, a GET_ANALYSIS with that
\* tab's id returns an entry holding that analysis.
C25_PopupAnalysisUnderItsTab ==
  \A i \in DOMAIN requests :
    (/\ requests[i].pc = "answered"
     /\ Nullish(requests[i].tabId)
     /\ requests[i].page \in openTabs
     /\ requests[i].settled.state = "resolved"
     /\ requests[i].response = SuccessResponse(requests[i].settled.v)) =>
      IF PopupGets(requests[i].page).t = "object"
      THEN Get(PopupGets(requests[i].page), "analysis") = requests[i].settled.v
      ELSE FALSE

\* C26 (as claimed): once a tab is removed the cache holds no entry for it,
\* whatever request was in flight (a removed tab sends no new message).
C26_NoEntryForRemovedTab ==
  \A tab \in Tabs \ openTabs : Num(tab) \notin DOMAIN analysisCache

\* C27 (as claimed): while a tab's entry is complete, every step other than
\* CLEAR_CACHE from the tab, the tab's removal or a new ANALYZE_POLICY for
\* the tab leaves GET_ANALYSIS for the tab returning the same analysis.
C27_CompleteAnalysisKept ==
  [][\A tab \in Tabs :
       (/\ PopupGets(tab).t = "object"
        /\ Get(PopupGets(tab), "status") = COMPLETE
        /\ ~ClearCacheFrom(Num(tab))
        /\ ~TabRemovedFor(tab)
        /\ ~AnalyzePolicyFrom(Num(tab), tab)) =>
         IF GetAnalysis(analysisCache', Num(tab), Undefined).t = "object"
         THEN Get(GetAnalysis(analysisCache', Num(tab), Undefined), "analysis")
                = Get(PopupGets(tab), "analysis")
         ELSE FALSE]_vars

\* C28 (as claimed): every cache entry has one of the four statuses and its
\* fields agree with it: complete has an analysis and no error, error has an
\* error message and no analysis, detected has analysis null.
C28_FieldsAgreeWithStatus ==
  \A key \in DOMAIN analysisCache :
    LET entry == analysisCache[key] IN
      /\ Get(entry, "status") \in {DETECTED, ANALYZING, COMPLETE, ERROR}
      /\ Get(entry, "status") = COMPLETE =>
           /\ ~Nullish(Get(entry, "analysis"))
           /\ "error" \notin DOMAIN entry.m
      /\ Get(entry, "status") = ERROR =>
           /\ Get(entry, "error").t = "string"
           /\ Nullish(Get(entry, "analysis"))
      /\ Get(entry, "status") = DETECTED => Get(entry, "analysis") = Null

\* The chunk results in another order
Permuted(p) == [i \in DOMAIN mResults |-> mResults[p[i]]]

\* every category of every chunk result is a finding with one of the four
\* statuses (the grades of normalized results are always among the six)
ValidFindings ==
  \A i \in DOMAIN mResults :
    /\ mResults[i].m.grade \in SixGrades
    /\ \A key \in DOMAIN mResults[i].m.dirtyDozen.m :
         /\ mResults[i].m.dirtyDozen.m[key].t = "object"
         /\ Get(mResults[i].m.dirtyDozen.m[key], "status") \in {SAFE, UNKNOWN, WARNING, DANGER}

\* C29: for chunk results with valid grades and statuses, the merged grade,
\* the key set of the merged dirtyDozen (the union of the chunks' key sets)
\* and the merged status of each category are the same for every order of
\* the chunk results.
C29_OrderIndependent ==
  (mPc = "returned" /\ ValidFindings) =>
    /\ DOMAIN mMerged.v.m.dirtyDozen.m =
         UNION {DOMAIN mResults[i].m.dirtyDozen.m : i \in DOMAIN mResults}
    /\ \A p \in Permutations(DOMAIN mResults) :
         LET other == mergeChunkResults(Permuted(p)) IN
           /\ other.c = "return"
           /\ other.v.m.grade = mMerged.v.m.grade
           /\ DOMAIN other.v.m.dirtyDozen.m = DOMAIN mMerged.v.m.dirtyDozen.m
           /\ \A key \in DOMAIN mMerged.v.m.dirtyDozen.m :
                Get(other.v.m.dirtyDozen.m[key], "status")
                  = Get(mMerged.v.m.dirtyDozen.m[key], "status")

\* C29 witness: the worse grade comes first and the worse finding last, one
\* category is reported by the second chunk only, and the merged result has
\* the worse grade, both categories and the worse status
C29_Witness ==
  /\ mPc = "returned" /\ Len(mResults) = 2 /\ ValidFindings
  /\ mResults[1].m.grade = Ch("C") /\ mResults[2].m.grade = Ch("B")
  /\ DOMAIN mResults[1].m.dirtyDozen.m = {"data_sale"}
  /\ DOMAIN mResults[2].m.dirtyDozen.m = {"data_sale", "ai_training"}
  /\ Get(mResults[1].m.dirtyDozen.m["data_sale"], "status") = SAFE
  /\ mResults[2].m.dirtyDozen.m["data_sale"] = Finding(DANGER, FINE)
  /\ DOMAIN mMerged.v.m.dirtyDozen.m = {"data_sale", "ai_training"}
  /\ mMerged.v.m.grade = Ch("C")
  /\ Get(mMerged.v.m.dirtyDozen.m["data_sale"], "status") = DANGER

\* C30 (as claimed): getPageContent fails with the 'Could not extract policy
\* text...' message when the content script's answer has no text or a text
\* shorter than 100 characters, and with 'Please refresh this page first...'
\* only when messaging the tab failed; in both cases nothing is sent to the
\* background and the loading state is cleared.
C30_FailuresDistinguished ==
  (uPc = "done" /\ uPage.state # "pending" /\ ExtractPolicy(uPage).c = "throw") =>
    /\ uPage.state = "resolved" => uError = Str(COULD_NOT_EXTRACT)
    /\ uError = Str(PLEASE_REFRESH) => uPage.state = "rejected"
    /\ uSent = <<>>
    /\ uLoading = FALSE

=============================================================================
